---- MODULE Spec2Model ----
(***************************************************************************)
(* Verification model of the news-digest pipeline (package app), its state *)
(* reconciliation (updateState / updateStateFromDigest), the article       *)
(* filter (package filter) and the file store (package state).             *)
(*                                                                         *)
(* Time is counted in hours.  Article ids are natural numbers.  A message  *)
(* is abstracted to its kind and the set of article ids whose lines it     *)
(* carries.                                                                *)
(***************************************************************************)
EXTENDS Integers, Sequences, FiniteSets, TLC

\* ------------------------------------------------------------------ bounds
\* Number of pipeline invocations explored from a fresh installation.
MaxRuns == 3
\* Number of pipeline invocations explored from a full sent-ledger.
MaxRunsFull == 1
\* Hours that pass between two pipeline invocations.
Tick == 24
\* Longest entries list handed to updateState on its own.
MaxEntries == 3
\* Longest short ledger handed to updateState on its own.
MaxLedger == 2
\* Seconds by which a pending retry timer advances in one step.
TimerStep == 12
\* Longest parsed categorization response handed to categorizeBatch.
MaxResponse == 2

\* Longest list of articles handed to Filter.Apply on its own.
MaxBatch == 3

\* Parts into which the bytes of a rendered State are divided on disk.
Whole == 2

\* Most recipients and most messages handed to Sender.Send on its own.
MaxRecipients == 2

MaxMessages == 2

\* Most articles (or categories) handed to a generation stage on its own, and
\* the largest configured batch size.
MaxStageUnits == 4

MaxBatchSize == 3

\* --------------------------------------------------------------- constants
maxSentHistory == 500

\* Client.GenerateText: attempts, and the waits before a retry in seconds.
maxRetries == 5

baseDelay == 12

serviceUnavailableDelay == 300

rateLimitDelay == 60

maxBackoff == 60

\* The least time in seconds between two requests of the categorizer, of the
\* ranker and of the summarizer.
categorizeDelay == 30

rankDelay == 12

summarizeDelay == 12

\* Sender: attempts per message.
retryAttempts == 3

\* config.Pipeline values used by the filter and the orchestrator.
cfg == [RecencyMaxHours |-> 48, MinContentLength |-> 100,
        MaxArticlesBeforeGemini |-> 2, MaxArticlesPerCategory |-> 2]

\* ----------------------------------------------------------------- helpers
Range(s) == {s[i] : i \in 1..Len(s)}

Last(s) == s[Len(s)]

\* The sequences over the elements of S in which no element repeats.
RECURSIVE InjSeqs(_)
InjSeqs(S) ==
    IF S = {} THEN {<<>>}
    ELSE {<<>>} \cup UNION {{<<x>> \o t : t \in InjSeqs(S \ {x})} : x \in S}

\* The arrangements of s that sort.Slice may leave behind when it orders by
\* PublishedAt descending: the sort is not stable, so ties land in any order.
SortedByRecency(s) ==
    {t \in InjSeqs(Range(s)) :
        /\ Len(t) = Len(s)
        /\ \A i \in 1..Len(t) : \A j \in 1..Len(t) :
              i < j => t[i].PublishedAt >= t[j].PublishedAt}

SubSeqTo(s, n) == [i \in 1..n |-> s[i]]

\* ------------------------------------------------------ strings (filter)
\* A string is a tuple of one-character strings over {"a", "A", " "}.
ToLowerCh(c) == IF c = "A" THEN "a" ELSE c

ToLower(s) == [i \in 1..Len(s) |-> ToLowerCh(s[i])]

RECURSIVE TrimLeft(_)
TrimLeft(s) ==
    IF Len(s) > 0 /\ s[1] = " " THEN TrimLeft(Tail(s)) ELSE s

RECURSIVE TrimRight(_)
TrimRight(s) ==
    IF Len(s) > 0 /\ s[Len(s)] = " " THEN TrimRight(SubSeqTo(s, Len(s) - 1))
    ELSE s

TrimSpace(s) == TrimRight(TrimLeft(s))

\* RawContent is kept run-length encoded: leading blanks, the runes between
\* the first and the last non-blank one, trailing blanks.
TrimmedRuneCount(c) == c.runes

canonicalKey(article) ==
    LET base == ToLower(TrimSpace(article.URL))
    IN IF base = <<>> THEN ToLower(TrimSpace(article.Title)) ELSE base

SentIDs(st) == {st.SentArticles[i].ID : i \in 1..Len(st.SentArticles)}

RECURSIVE ApplyFrom(_, _, _, _, _)
ApplyFrom(articles, i, seen, sentIDs, now) ==
    IF i > Len(articles) THEN <<>>
    ELSE LET article == articles[i]
             cutoff  == now - cfg.RecencyMaxHours
             key     == canonicalKey(article)
         IN IF article.PublishedAt < cutoff
               THEN ApplyFrom(articles, i + 1, seen, sentIDs, now)
            ELSE IF article.PublishedAt > now
               THEN ApplyFrom(articles, i + 1, seen, sentIDs, now)
            ELSE IF TrimmedRuneCount(article.RawContent) < cfg.MinContentLength
               THEN ApplyFrom(articles, i + 1, seen, sentIDs, now)
            ELSE IF key \in seen
               THEN ApplyFrom(articles, i + 1, seen, sentIDs, now)
            ELSE IF article.ID \in sentIDs
               THEN ApplyFrom(articles, i + 1, seen, sentIDs, now)
            ELSE <<article>> \o
                 ApplyFrom(articles, i + 1, seen \cup {key}, sentIDs, now)

\* Filter.Apply that does not consult the ledger.
ApplyIgnoresLedger(articles, st, now) == ApplyFrom(articles, 1, {}, {}, now)

\* Filter.Apply with a clock that is one hour ahead.
ApplyClockAhead(articles, st, now) ==
    ApplyFrom(articles, 1, {}, SentIDs(st), now + 1)

\* Filter.Apply
Apply(articles, st, now) == ApplyFrom(articles, 1, {}, SentIDs(st), now)


\* ---------------------------------------------------- state reconciliation
EmptyState == [LastRun |-> 0, SentArticles |-> <<>>, Recipients |-> <<>>,
               LastUpdateID |-> 0]

\* The loop that appends every id not found in the map built from the
\* previous ledger; the map is not extended while appending.
RECURSIVE AppendMissing(_, _, _, _)
AppendMissing(filtered, ids, existing, now) ==
    IF ids = <<>> THEN filtered
    ELSE IF Head(ids) \in existing
         THEN AppendMissing(filtered, Tail(ids), existing, now)
         ELSE AppendMissing(Append(filtered, [ID |-> Head(ids), SentAt |-> now]),
                            Tail(ids), existing, now)

Truncate(filtered) ==
    IF Len(filtered) > maxSentHistory
    THEN SubSeq(filtered, Len(filtered) - maxSentHistory + 1, Len(filtered))
    ELSE filtered

\* updateStateFromDigest without the look-up in the previous ledger.
updateStateFromDigestNoSkip(prev, dg, now) ==
    [prev EXCEPT !.LastRun = now,
                 !.SentArticles =
                     AppendMissing(prev.SentArticles, dg.ArticleIDs, {}, now)]

updateStateFromDigest(prev, digest, now) ==
    [prev EXCEPT !.LastRun = now,
                 !.SentArticles =
                     AppendMissing(prev.SentArticles, digest.ArticleIDs,
                                   SentIDs(prev), now)]

updateState(prev, entries, now) ==
    [prev EXCEPT !.LastRun = now,
                 !.SentArticles =
                     Truncate(AppendMissing(prev.SentArticles, entries,
                                            SentIDs(prev), now))]

\* ------------------------------------------------------------- collaborators
serviceMessage == [kind |-> "service", ids |-> {}]

testMessage == [kind |-> "test", ids |-> {}]

DigestMessage(ids) == [kind |-> "digest", ids |-> ids]

IdsOf(messages) == UNION {messages[i].ids : i \in 1..Len(messages)}

\* Articles the feeds can carry.  1003 is 1001 again under another site id,
\* with the URL in upper case and padded with blanks.
Art1 == [ID |-> 1001, URL |-> <<"a">>, Title |-> <<"a">>, PublishedAt |-> 20,
         RawContent |-> [lead |-> 0, runes |-> 120, trail |-> 0]]

Art2 == [ID |-> 1002, URL |-> <<"a", "a">>, Title |-> <<"a">>, PublishedAt |-> 10,
         RawContent |-> [lead |-> 1, runes |-> 100, trail |-> 1]]

Art3 == [ID |-> 1003, URL |-> <<" ", "A", " ">>, Title |-> <<"A">>, PublishedAt |-> 20,
         RawContent |-> [lead |-> 0, runes |-> 120, trail |-> 0]]

Art4 == [ID |-> 1004, URL |-> <<"a", "A", "a">>, Title |-> <<>>, PublishedAt |-> 0,
         RawContent |-> [lead |-> 0, runes |-> 300, trail |-> 0]]

Art5 == [ID |-> 1005, URL |-> <<"A", "A", "A">>, Title |-> <<>>, PublishedAt |-> 15,
         RawContent |-> [lead |-> 3, runes |-> 99, trail |-> 3]]

\* What SourceCollector.Collect can return.
Feeds == {<<Art1, Art3, Art5, Art2, Art4>>, <<Art2>>}

IDs(articles) == [i \in 1..Len(articles) |-> articles[i].ID]

\* Formatter.BuildMessages: nothing for no entries; otherwise the category
\* blocks are packed into one message, split over several, or cut off at the
\* message cap.
BuildMessages(entries) ==
    IF entries = <<>> THEN {<<>>}
    ELSE {<<DigestMessage(Range(entries))>>} \cup
         (IF Len(entries) >= 2
          THEN {<<DigestMessage({entries[1]}),
                  DigestMessage(Range(Tail(entries)))>>,
                <<DigestMessage({entries[1]})>>}
          ELSE {})

\* Ranker.Rank: per category a sorted selection of the input, cut to
\* maxPerCategory (at least 1): every category keeps an article.
Rank(categorized) ==
    IF categorized = <<>> THEN {<<>>}
    ELSE InjSeqs(Range(categorized)) \ {<<>>}

\* Telegram getUpdates as seen by RecipientManager.Resolve: nothing, a new
\* update, or an update with an id below the cursor.
Polls(st) ==
    {<<>>, <<[UpdateID |-> st.LastUpdateID + 1, ChatID |-> 1]>>,
     <<[UpdateID |-> st.LastUpdateID - 1, ChatID |-> 2]>>}

MaxOf(S, d) == IF S = {} THEN d ELSE CHOOSE m \in S : \A x \in S : x <= m

RECURSIVE SortedSeq(_)
SortedSeq(S) ==
    IF S = {} THEN <<>>
    ELSE LET m == CHOOSE x \in S : \A y \in S : x <= y
         IN <<m>> \o SortedSeq(S \ {m})

\* RecipientManager.Resolve on a successful poll.  A recipient is kept as its
\* chat id, which also stands for its name.
ResolveCursorFromPoll(st, updates) ==
    LET known  == {r \in Range(st.Recipients) : r # 0}
        polled == {updates[i].ChatID : i \in 1..Len(updates)} \ {0}
        maxID  == MaxOf({updates[i].UpdateID : i \in 1..Len(updates)}, st.LastUpdateID)
    IN [st EXCEPT !.LastUpdateID = maxID, !.Recipients = SortedSeq(known \cup polled)]

Resolve(st, updates) ==
    LET known  == {r \in Range(st.Recipients) : r # 0}
        polled == {updates[i].ChatID : i \in 1..Len(updates)} \ {0}
        maxID  == MaxOf({updates[i].UpdateID : i \in 1..Len(updates)}
                        \cup {st.LastUpdateID}, st.LastUpdateID)
    IN [st EXCEPT !.LastUpdateID = maxID,
                  !.Recipients = SortedSeq(known \cup polled)]


\* ------------------------------------------------------------------- state
VARIABLES
    stateFile,    \* state/state.json as FileStore.Load would parse it
    digestFile,   \* state/digest.json: <<>> when absent, else <<digest>>
    clock,        \* wall clock, hours
    runsLeft,     \* invocations still to be explored
    pc,           \* position of the running invocation inside Pipeline.Run
    p,            \* the Pipeline value whose Run is executing
    fallback,     \* TRUE inside fallbackPipeline.Run
    state,        \* Run's local state
    recipients,   \* Run's local recipients
    digest,       \* Run's local digest (send mode), <<>> or <<digest>>
    articles,     \* rawArticles, then filtered
    ids,          \* ids of categorized, then ranked, then digestEntries
    messages,     \* Run's local messages
    result,       \* "" while running, "ok" for nil, else the error's label
    calls,        \* collaborator methods invoked by this invocation, in order
    sendArgs,     \* the message lists handed to Sender.Send by this invocation
    startState,   \* stateFile when this invocation started
    delivered,    \* article ids in messages Sender.Send accepted, all runs
    probe,        \* input and output of a function applied on its own
    quotaIn       \* stages of this invocation whose external call failed
                  \* as quota-exhausted

vars == <<stateFile, digestFile, clock, runsLeft, pc, p, fallback, state,
          recipients, digest, articles, ids, messages, result, calls,
          sendArgs, startState, delivered, probe, quotaIn>>

files == <<stateFile, digestFile>>

locals == <<state, recipients, digest, articles, ids, messages>>

\* What PipelineDeps can be wired with: everything; collector, filter and
\* sender only (cmd/dailyjob with SKIP_GEMINI=1); collector and filter only.
Wirings == {"full", "noGemini", "bare"}

Pipelines ==
    [deps : Wirings, hasResolver : BOOLEAN, forceDispatch : BOOLEAN,
     skipGemini : BOOLEAN, sendTestMessage : BOOLEAN, buildMode : BOOLEAN,
     sendMode : BOOLEAN]

NoPipeline ==
    [deps |-> "full", hasResolver |-> FALSE, forceDispatch |-> FALSE,
     skipGemini |-> FALSE, sendTestMessage |-> FALSE, buildMode |-> FALSE,
     sendMode |-> FALSE]

hasSender(q) == q.deps # "bare"

\* TRUE when validateDeps returns nil.  stateStore, clock, collector and
\* filter are wired in every configuration.
validateDeps(q) ==
    IF q.sendMode THEN hasSender(q)
    ELSE IF ~q.skipGemini THEN q.deps = "full"
    ELSE TRUE

ErrNotConfigured == "pipeline dependencies not configured"

ErrNoRecipients == "no recipients registered; ask users to contact the bot"

ErrCanceled == "context canceled"

TypeOK ==
    /\ pc \in {"idle", "load", "resolve", "testMessage", "loadDigest",
               "sendDigest", "saveStateSend", "deleteDigest", "collect",
               "filter", "categorize", "rank", "saveNoNewsDigest",
               "sendServiceMessage", "summarize", "format", "saveDigest",
               "send", "saveState", "done"}
    /\ p \in Pipelines
    /\ fallback \in BOOLEAN
    /\ Len(digestFile) <= 1
    /\ Len(digest) <= 1
    /\ runsLeft \in Nat
    /\ (result = "") = (pc \notin {"idle", "done"})

InitRun ==
    /\ clock = 0
    /\ quotaIn = {}
    /\ pc = "idle"
    /\ p = NoPipeline
    /\ fallback = FALSE
    /\ state = EmptyState
    /\ recipients = <<>>
    /\ digest = <<>>
    /\ articles = <<>>
    /\ ids = <<>>
    /\ messages = <<>>
    /\ result = "ok"
    /\ calls = <<>>
    /\ sendArgs = <<>>
    /\ delivered = {}

\* A fresh installation: no state file, no digest file.
Init ==
    /\ InitRun
    /\ probe = <<>>
    /\ stateFile = EmptyState
    /\ digestFile = <<>>
    /\ startState = stateFile
    /\ runsLeft = MaxRuns

\* Ends the invocation with Run's return value r.
Return(r) == pc' = "done" /\ result' = r

\* Run carries on at position x / Run returns r.
Goto(x) == [pc |-> x, result |-> ""]

Returns(r) == [pc |-> "done", result |-> r]

Take(o) == pc' = o.pc /\ result' = o.result

Call(name) == calls' = Append(calls, name)

\* Where Run goes once state and recipients are known.
AfterResolve(q) ==
    IF q.sendTestMessage THEN "testMessage"
    ELSE IF q.sendMode THEN "loadDigest"
    ELSE "collect"

\* The process starts and Run validates its dependencies.
StartRun ==
    /\ pc = "idle"
    /\ runsLeft > 0
    /\ runsLeft' = runsLeft - 1
    /\ clock' = clock + Tick
    /\ \E q \in Pipelines :
          /\ p' = q
          /\ IF validateDeps(q)
             THEN pc' = "load" /\ result' = ""
             ELSE Return(ErrNotConfigured)
    /\ startState' = stateFile
    /\ UNCHANGED <<files, probe, quotaIn, fallback, locals, calls, sendArgs, delivered>>

\* state, err := p.stateStore.Load(ctx)
Load ==
    /\ pc = "load"
    /\ Call("Load")
    /\ \/ /\ Return("load state")
          /\ UNCHANGED state
       \/ /\ state' = stateFile
          /\ result' = result
          /\ pc' = IF p.hasResolver THEN "resolve" ELSE AfterResolve(p)
    /\ UNCHANGED <<files, probe, quotaIn, clock, runsLeft, p, fallback, recipients, digest,
                   articles, ids, messages, sendArgs, startState, delivered>>

\* state, recipients, err = p.recipients.Resolve(ctx, state)
ResolveRecipients ==
    /\ pc = "resolve"
    /\ Call("Resolve")
    /\ \/ /\ Return("resolve recipients")
          /\ UNCHANGED <<state, recipients>>
       \/ \E updates \in Polls(state) :
             /\ state' = Resolve(state, updates)
             /\ recipients' = state'.Recipients
             /\ result' = result
             /\ pc' = AfterResolve(p)
    /\ UNCHANGED <<files, probe, quotaIn, clock, runsLeft, p, fallback, digest, articles, ids,
                   messages, sendArgs, startState, delivered>>

\* Sender.Send accepted msgs.
Accepted(msgs) == delivered' = delivered \cup IdsOf(msgs)

\* if p.sendTestMessage { ... }
TestMessage ==
    /\ pc = "testMessage"
    /\ IF Len(recipients) > 0 /\ hasSender(p)
       THEN /\ Call("Send")
            /\ sendArgs' = Append(sendArgs, <<testMessage>>)
            /\ \/ Return("send test message")
               \/ Return("ok")
       ELSE /\ IF Len(recipients) = 0 THEN Return(ErrNoRecipients)
               ELSE Return("ok")
            /\ UNCHANGED <<calls, sendArgs>>
    /\ UNCHANGED <<files, probe, quotaIn, clock, runsLeft, p, fallback, locals, startState,
                   delivered>>


\* fallbackPipeline with buildMode copied from p.
fallbackPipelineKeepsBuildMode(q) == [q EXCEPT !.sendMode = FALSE]

\* The Pipeline value built when send mode finds no digest.
fallbackPipeline(q) == [q EXCEPT !.buildMode = FALSE, !.sendMode = FALSE]

\* AfterLoadDigest without the recipients check.
AfterLoadDigestNoCheck(q, rcpts) ==
    IF Len(rcpts) = 0 THEN Goto("saveStateSend") ELSE Goto("sendDigest")

\* Send mode with a digest that has messages: is there anyone to send to?
AfterLoadDigest(q, rcpts) ==
    IF Len(rcpts) = 0 /\ ~q.forceDispatch THEN Returns(ErrNoRecipients)
    ELSE IF Len(rcpts) = 0 THEN Goto("saveStateSend")
    ELSE Goto("sendDigest")

\* if p.sendMode { digest, err := p.stateStore.LoadDigest(ctx) ... } up to the
\* decision whether there is anything to send and anyone to send it to.
LoadDigest ==
    /\ pc = "loadDigest"
    /\ \/ /\ Call("LoadDigest")
          /\ Return("load digest")
          /\ UNCHANGED <<p, fallback, digest, digestFile>>
       \/ /\ digestFile = <<>>
          /\ Call("LoadDigest")
          /\ p' = fallbackPipeline(p)
          /\ fallback' = TRUE
          /\ IF validateDeps(p')
             THEN pc' = "load" /\ result' = result
             ELSE Return(ErrNotConfigured)
          /\ UNCHANGED <<digest, digestFile>>
       \/ /\ digestFile # <<>>
          /\ digest' = digestFile
          /\ UNCHANGED <<p, fallback>>
          /\ IF Len(digestFile[1].Messages) = 0
             THEN /\ calls' = calls \o <<"LoadDigest", "DeleteDigest">>
                  /\ \E removed \in BOOLEAN :
                        digestFile' = IF removed THEN <<>> ELSE digestFile
                  /\ Return("ok")
             ELSE /\ Call("LoadDigest")
                  /\ UNCHANGED digestFile
                  /\ Take(AfterLoadDigest(p, recipients))
    /\ UNCHANGED <<stateFile, probe, quotaIn, clock, runsLeft, state, recipients, articles,
                   ids, messages, sendArgs, startState, delivered>>

\* Send mode that removes the digest file before it sends the messages.
SendDigestDeletesFirst ==
    /\ pc = "sendDigest"
    /\ Call("Send")
    /\ sendArgs' = Append(sendArgs, digest[1].Messages)
    /\ digestFile' = <<>>
    /\ \/ /\ Return("send messages")
          /\ UNCHANGED delivered
       \/ /\ Accepted(digest[1].Messages)
          /\ result' = result
          /\ pc' = "saveStateSend"
    /\ UNCHANGED <<stateFile, probe, quotaIn, clock, runsLeft, p, fallback, locals,
                   startState>>

\* p.sender.Send(ctx, recipients, digest.Messages)
SendDigest ==
    /\ pc = "sendDigest"
    /\ Call("Send")
    /\ sendArgs' = Append(sendArgs, digest[1].Messages)
    /\ \/ /\ Return("send messages")
          /\ UNCHANGED delivered
       \/ /\ Accepted(digest[1].Messages)
          /\ result' = result
          /\ pc' = "saveStateSend"
    /\ UNCHANGED <<files, probe, quotaIn, clock, runsLeft, p, fallback, locals, startState>>

\* newState := p.updateStateFromDigest(state, digest); p.stateStore.Save
SaveStateSend ==
    /\ pc = "saveStateSend"
    /\ Call("Save")
    /\ \/ /\ Return("save state")
          /\ UNCHANGED stateFile
       \/ /\ stateFile' = updateStateFromDigest(state, digest[1], clock)
          /\ result' = result
          /\ pc' = "deleteDigest"
    /\ UNCHANGED <<digestFile, probe, quotaIn, clock, runsLeft, p, fallback, locals, sendArgs,
                   startState, delivered>>

\* p.stateStore.DeleteDigest(ctx); a failure is logged and Run returns nil.
DeleteDigest ==
    /\ pc = "deleteDigest"
    /\ Call("DeleteDigest")
    /\ \/ digestFile' = <<>>
       \/ UNCHANGED digestFile
    /\ Return("ok")
    /\ UNCHANGED <<stateFile, probe, quotaIn, clock, runsLeft, p, fallback, locals, sendArgs,
                   startState, delivered>>

\* rawArticles, err := p.collector.Collect(ctx)
Collect ==
    /\ pc = "collect"
    /\ Call("Collect")
    /\ \/ /\ Return("collect articles")
          /\ UNCHANGED articles
       \/ /\ articles' \in Feeds
          /\ result' = result
          /\ pc' = "filter"
    /\ UNCHANGED <<files, probe, quotaIn, clock, runsLeft, p, fallback, state, recipients,
                   digest, ids, messages, sendArgs, startState, delivered>>

\* The filter's output passed on without the volume limit.
LimitVolumeOff(filtered) == {filtered}

\* The volume limit applied to the filter's output.
LimitVolume(filtered) ==
    IF cfg.MaxArticlesBeforeGemini > 0
       /\ Len(filtered) > cfg.MaxArticlesBeforeGemini
    THEN {SubSeqTo(t, cfg.MaxArticlesBeforeGemini) : t \in SortedByRecency(filtered)}
    ELSE {filtered}

\* FilterArticles without the skipGemini stop.
FilterArticlesNoStop ==
    /\ pc = "filter"
    /\ Call("Apply")
    /\ \/ /\ Return("filter articles")
          /\ UNCHANGED articles
       \/ /\ articles' \in LimitVolume(Apply(articles, state, clock))
          /\ result' = result /\ pc' = "categorize"
    /\ UNCHANGED <<files, probe, quotaIn, clock, runsLeft, p, fallback, state, recipients,
                   digest, ids, messages, sendArgs, startState, delivered>>

\* filtered, err := p.filter.Apply(ctx, rawArticles, state); volume limit;
\* statistics; the skipGemini stop.
FilterArticles ==
    /\ pc = "filter"
    /\ Call("Apply")
    /\ \/ /\ Return("filter articles")
          /\ UNCHANGED articles
       \/ /\ articles' \in LimitVolume(Apply(articles, state, clock))
          /\ IF p.skipGemini THEN Return("ok")
             ELSE result' = result /\ pc' = "categorize"
    /\ UNCHANGED <<files, probe, quotaIn, clock, runsLeft, p, fallback, state, recipients,
                   digest, ids, messages, sendArgs, startState, delivered>>

\* categorized, err := p.categorizer.Categorize(ctx, filtered)
Categorize ==
    /\ pc = "categorize"
    /\ Call("Categorize")
    /\ \/ /\ articles # <<>>
          /\ Return("categorize articles")
          /\ quotaIn' \in {quotaIn, quotaIn \cup {"categorize"}}
          /\ UNCHANGED ids
       \/ /\ ids' = IDs(articles)
          /\ result' = result
          /\ pc' = "rank"
          /\ UNCHANGED quotaIn
    /\ UNCHANGED <<files, probe, clock, runsLeft, p, fallback, state, recipients,
                   digest, articles, messages, sendArgs, startState, delivered>>

\* AfterRank without the build-mode branch.
AfterRankIgnoresBuildMode(q, ranked, rcpts) ==
    IF ranked # <<>> THEN Goto("summarize")
    ELSE IF Len(rcpts) = 0 /\ ~q.forceDispatch THEN Returns(ErrNoRecipients)
    ELSE IF Len(rcpts) > 0 THEN Goto("sendServiceMessage")
    ELSE Returns("ok")

\* if len(ranked) == 0 { ... }: the no-relevant-news path.
AfterRank(q, ranked, rcpts) ==
    IF ranked # <<>> THEN Goto("summarize")
    ELSE IF q.buildMode THEN Goto("saveNoNewsDigest")
    ELSE IF Len(rcpts) = 0 /\ ~q.forceDispatch THEN Returns(ErrNoRecipients)
    ELSE IF Len(rcpts) > 0 THEN Goto("sendServiceMessage")
    ELSE Returns("ok")

\* The one-minute wait, then ranked, err := p.ranker.Rank(ctx, categorized)
\* and the decision taken on an empty ranking.
RankArticles ==
    /\ pc = "rank"
    /\ \/ /\ Return(ErrCanceled)
          /\ UNCHANGED <<ids, calls, quotaIn>>
       \/ /\ Call("Rank")
          /\ Len(ids) >= 2
          /\ Return("rank articles")
          /\ quotaIn' \in {quotaIn, quotaIn \cup {"rank"}}
          /\ UNCHANGED ids
       \/ /\ Call("Rank")
          /\ ids' \in Rank(ids)
          /\ quotaIn' \in {quotaIn} \cup
                          (IF ids # <<>> THEN {quotaIn \cup {"rank"}} ELSE {})
          /\ Take(AfterRank(p, ids', recipients))
    /\ UNCHANGED <<files, probe, clock, runsLeft, p, fallback, state, recipients,
                   digest, articles, messages, sendArgs, startState, delivered>>

\* The digest Run builds from messages and article ids.
NewDigest(msgs, articleIDs) ==
    [Messages |-> msgs, CreatedAt |-> clock, ArticleIDs |-> articleIDs]

\* Build mode without relevant news: the service message is saved as a digest.
SaveNoNewsDigest ==
    /\ pc = "saveNoNewsDigest"
    /\ Call("SaveDigest")
    /\ \/ /\ Return("save digest (no-news service message)")
          /\ UNCHANGED digestFile
       \/ /\ digestFile' = <<NewDigest(<<serviceMessage>>, <<>>)>>
          /\ Return("ok")
    /\ UNCHANGED <<stateFile, probe, quotaIn, clock, runsLeft, p, fallback, locals, sendArgs,
                   startState, delivered>>

\* SendServiceMessage that saves a state of its own making once the message
\* is out.
SendServiceMessageSavesFresh ==
    /\ pc = "sendServiceMessage"
    /\ Call("Send")
    /\ sendArgs' = Append(sendArgs, <<serviceMessage>>)
    /\ \/ Return("send 'no news today' service message") /\ UNCHANGED stateFile
       \/ Return("ok") /\ stateFile' = updateState(EmptyState, ids, clock)
    /\ UNCHANGED <<digestFile, probe, quotaIn, clock, runsLeft, p, fallback, locals,
                   startState, delivered>>

\* p.sender.Send(ctx, recipients, []string{serviceMessage})
SendServiceMessage ==
    /\ pc = "sendServiceMessage"
    /\ Call("Send")
    /\ sendArgs' = Append(sendArgs, <<serviceMessage>>)
    /\ \/ Return("send 'no news today' service message")
       \/ Return("ok")
    /\ UNCHANGED <<files, probe, quotaIn, clock, runsLeft, p, fallback, locals, startState,
                   delivered>>

\* Summarize with a wait that sleeps on: the cancellation is seen only after
\* the summarizer has been called.
SummarizeCallsOnCancel ==
    /\ pc = "summarize"
    /\ Call("Summarize")
    /\ \/ /\ Return(ErrCanceled)
          /\ UNCHANGED quotaIn
       \/ /\ Return("summarize articles")
          /\ quotaIn' \in {quotaIn, quotaIn \cup {"summarize"}}
       \/ /\ result' = result
          /\ pc' = "format"
          /\ UNCHANGED quotaIn
    /\ UNCHANGED <<files, probe, clock, runsLeft, p, fallback, locals, sendArgs,
                   startState, delivered>>

\* The one-minute wait, then digestEntries, err := p.summarizer.Summarize
Summarize ==
    /\ pc = "summarize"
    /\ \/ /\ Return(ErrCanceled)
          /\ UNCHANGED <<calls, quotaIn>>
       \/ /\ Call("Summarize")
          /\ Return("summarize articles")
          /\ quotaIn' \in {quotaIn, quotaIn \cup {"summarize"}}
       \/ /\ Call("Summarize")
          /\ result' = result
          /\ pc' = "format"
          /\ UNCHANGED quotaIn
    /\ UNCHANGED <<files, probe, clock, runsLeft, p, fallback, locals, sendArgs,
                   startState, delivered>>

\* AfterFormat without the build-mode return.
AfterFormatNoBuildReturn(q, msgs, rcpts) ==
    IF Len(msgs) > 0 /\ Len(rcpts) = 0 /\ ~q.forceDispatch
    THEN Returns(ErrNoRecipients)
    ELSE IF Len(msgs) > 0 /\ Len(rcpts) > 0 THEN Goto("send")
    ELSE Goto("saveState")

\* AfterFormat that hands the messages to Send whoever is there to get them.
AfterFormatAlwaysSends(q, msgs, rcpts) ==
    IF q.buildMode THEN Goto("saveDigest")
    ELSE IF Len(msgs) > 0 /\ Len(rcpts) = 0 /\ ~q.forceDispatch
         THEN Returns(ErrNoRecipients)
    ELSE IF Len(msgs) > 0 THEN Goto("send")
    ELSE Goto("saveState")

\* Once the messages are built: save the digest (build mode), send, or go
\* straight to the state update.
AfterFormat(q, msgs, rcpts) ==
    IF q.buildMode THEN Goto("saveDigest")
    ELSE IF Len(msgs) > 0 /\ Len(rcpts) = 0 /\ ~q.forceDispatch
         THEN Returns(ErrNoRecipients)
    ELSE IF Len(msgs) > 0 /\ Len(rcpts) > 0 THEN Goto("send")
    ELSE Goto("saveState")

\* messages, err := p.formatter.BuildMessages(digestEntries) and the choice
\* between saving the digest, sending it and going straight to the state.
Format ==
    /\ pc = "format"
    /\ Call("BuildMessages")
    /\ \/ /\ Return("build messages")
          /\ UNCHANGED messages
       \/ /\ messages' \in BuildMessages(ids)
          /\ Take(AfterFormat(p, messages', recipients))
    /\ UNCHANGED <<files, probe, quotaIn, clock, runsLeft, p, fallback, state, recipients,
                   digest, articles, ids, sendArgs, startState, delivered>>

\* Build mode: p.stateStore.SaveDigest(ctx, digest)
SaveDigest ==
    /\ pc = "saveDigest"
    /\ Call("SaveDigest")
    /\ \/ /\ Return("save digest")
          /\ UNCHANGED digestFile
       \/ /\ digestFile' = <<NewDigest(messages, ids)>>
          /\ Return("ok")
    /\ UNCHANGED <<stateFile, probe, quotaIn, clock, runsLeft, p, fallback, locals, sendArgs,
                   startState, delivered>>

\* Send with the state written before the outcome of the send is looked at.
SendSavesFirst ==
    /\ pc = "send"
    /\ Call("Send")
    /\ sendArgs' = Append(sendArgs, messages)
    /\ stateFile' = updateState(state, ids, clock)
    /\ \/ /\ Return("send messages")
          /\ UNCHANGED delivered
       \/ /\ Accepted(messages)
          /\ result' = result
          /\ pc' = "saveState"
    /\ UNCHANGED <<digestFile, probe, quotaIn, clock, runsLeft, p, fallback, locals,
                   startState>>

\* Run that saves the state and then sends.
SendAfterSave ==
    /\ pc = "send"
    /\ calls' = calls \o <<"Save", "Send">>
    /\ sendArgs' = Append(sendArgs, messages)
    /\ stateFile' = updateState(state, ids, clock)
    /\ \/ /\ Return("send messages")
          /\ UNCHANGED delivered
       \/ /\ Accepted(messages)
          /\ Return("ok")
    /\ UNCHANGED <<digestFile, probe, quotaIn, clock, runsLeft, p, fallback, locals,
                   startState>>

\* p.sender.Send(ctx, recipients, messages)
Send ==
    /\ pc = "send"
    /\ Call("Send")
    /\ sendArgs' = Append(sendArgs, messages)
    /\ \/ /\ Return("send messages")
          /\ UNCHANGED delivered
       \/ /\ Accepted(messages)
          /\ result' = result
          /\ pc' = "saveState"
    /\ UNCHANGED <<files, probe, quotaIn, clock, runsLeft, p, fallback, locals, startState>>

\* newState := p.updateState(state, digestEntries); p.stateStore.Save
SaveState ==
    /\ pc = "saveState"
    /\ Call("Save")
    /\ \/ /\ Return("save state")
          /\ UNCHANGED stateFile
       \/ /\ stateFile' = updateState(state, ids, clock)
          /\ Return("ok")
    /\ UNCHANGED <<digestFile, probe, quotaIn, clock, runsLeft, p, fallback, locals, sendArgs,
                   startState, delivered>>

\* Run has returned and the process exits: nothing but the files survives.
Exit ==
    /\ pc = "done"
    /\ pc' = "idle"
    /\ p' = NoPipeline
    /\ fallback' = FALSE
    /\ state' = EmptyState
    /\ recipients' = <<>>
    /\ digest' = <<>>
    /\ articles' = <<>>
    /\ ids' = <<>>
    /\ messages' = <<>>
    /\ result' = "ok"
    /\ calls' = <<>>
    /\ sendArgs' = <<>>
    /\ startState' = stateFile
    /\ quotaIn' = {}
    /\ UNCHANGED <<files, probe, clock, runsLeft, delivered>>

Next ==
    \/ StartRun
    \/ Load
    \/ ResolveRecipients
    \/ TestMessage
    \/ LoadDigest
    \/ SendDigest
    \/ SaveStateSend
    \/ DeleteDigest
    \/ Collect
    \/ FilterArticles
    \/ Categorize
    \/ RankArticles
    \/ SaveNoNewsDigest
    \/ SendServiceMessage
    \/ Summarize
    \/ Format
    \/ SaveDigest
    \/ Send
    \/ SaveState
    \/ Exit

Spec == Init /\ [][Next]_vars

\* A ledger of n entries recorded by earlier runs.
Filler(n) == [i \in 1..n |-> [ID |-> i, SentAt |-> 0]]

\* A digest left behind by a build-mode run over the first feed.
BuiltDigest ==
    [Messages |-> <<DigestMessage({1001, 1002})>>, CreatedAt |-> 0,
     ArticleIDs |-> <<1001, 1002>>]

\* An installation that has been running for long: the ledger is one entry
\* short of the cap, or at the cap, its newest row may be the article of the
\* second feed, and a build-mode run may have left a digest behind.
InitFull ==
    /\ InitRun
    /\ probe = <<>>
    /\ \E n \in {maxSentHistory - 1, maxSentHistory} :
          \E ledger \in {Filler(n),
                         Append(Filler(n - 1), [ID |-> Art2.ID, SentAt |-> 0])} :
             stateFile = [EmptyState EXCEPT !.SentArticles = ledger]
    /\ digestFile \in {<<>>, <<BuiltDigest>>}
    /\ startState = stateFile
    /\ runsLeft = MaxRunsFull

SpecFull == InitFull /\ [][Next]_vars

\* ------------------------------------------------ updateState on its own
\* Ids of digest entries; 1 also heads the ledgers built by Filler.
EntryIDs == {1, 1001, 1002}

RECURSIVE SeqsUpTo(_, _)
SeqsUpTo(S, n) ==
    IF n = 0 THEN {<<>>}
    ELSE {<<>>} \cup {<<x>> \o t : x \in S, t \in SeqsUpTo(S, n - 1)}

\* The []news.DigestEntry values updateState is handed, as their ids.
EntryLists == SeqsUpTo(EntryIDs, MaxEntries)

\* The ledgers a state file holds: short ones without repeated ids, and
\* ledgers at the cap or one entry short of it.
Ledgers ==
    {[i \in 1..Len(t) |-> [ID |-> t[i], SentAt |-> 0]] :
        t \in {u \in InjSeqs(EntryIDs) : Len(u) <= MaxLedger}}
    \cup {Filler(maxSentHistory - 1), Filler(maxSentHistory)}

\* probe holds the state passed to updateState, the entries, and the number
\* of times updateState has been applied.
InitUpdate ==
    /\ InitRun
    /\ stateFile = EmptyState
    /\ digestFile = <<>>
    /\ startState = stateFile
    /\ runsLeft = 0
    /\ \E ledger \in Ledgers : \E entries \in EntryLists :
          probe = [state |-> [EmptyState EXCEPT !.SentArticles = ledger],
                   entries |-> entries, applied |-> 0]

\* prev = p.updateState(prev, entries), the clock having moved on.
ApplyUpdateState ==
    /\ probe.applied < 2
    /\ clock' = clock + 1
    /\ probe' = [probe EXCEPT
                    !.state = updateState(probe.state, probe.entries, clock'),
                    !.applied = probe.applied + 1]
    /\ UNCHANGED <<files, runsLeft, pc, p, fallback, locals, result, calls,
                   sendArgs, startState, delivered, quotaIn>>

NextUpdate == ApplyUpdateState

SpecUpdate == InitUpdate /\ [][NextUpdate]_vars


\* --------------------------------------------------- Client.GenerateText
\* An error text of the API, as the set of the substrings looked for by the
\* classifiers that its lower-cased form contains.
ErrDailyQuota == {"429", "limit: 20", "quota", "quota exceeded"}

ErrDailyMetric == {"429", "code: 429", "generate_content_free_tier_requests"}

ErrPerMinute == {"429", "too many requests"}

ErrPerMinuteQuota == {"429", "quota", "resource exhausted"}

ErrUnavailable == {"503", "service unavailable"}

ErrOverloaded == {"overloaded", "model overloaded"}

ErrInternal == {"500", "internal server error"}

ErrForbiddenQuota == {"403", "quota"}

ErrDailyLimit == {"daily limit"}

ErrMetricOnly == {"generate_content_free_tier_requests"}

ErrInvalid == {}

ErrTexts ==
    {ErrDailyQuota, ErrDailyMetric, ErrPerMinute, ErrPerMinuteQuota,
     ErrUnavailable, ErrOverloaded, ErrInternal, ErrForbiddenQuota,
     ErrDailyLimit, ErrMetricOnly, ErrInvalid}

\* strings.Contains(errLower, sub)
Contains(errLower, sub) == sub \in errLower

isRPDQuotaError(e) ==
    IF ~Contains(e, "429") /\ ~Contains(e, "code: 429") THEN FALSE
    ELSE Contains(e, "limit: 20")
         \/ Contains(e, "generate_content_free_tier_requests")

isRateLimitError(e) ==
    IF isRPDQuotaError(e) THEN FALSE
    ELSE \/ Contains(e, "rate limit")
         \/ Contains(e, "429")
         \/ Contains(e, "too many requests")
         \/ Contains(e, "resource exhausted")

isServiceUnavailableError(e) ==
    \/ Contains(e, "503")
    \/ Contains(e, "service unavailable")
    \/ Contains(e, "overloaded")
    \/ Contains(e, "model overloaded")

isTemporaryError(e) ==
    \/ Contains(e, "500")
    \/ Contains(e, "502")
    \/ Contains(e, "504")
    \/ Contains(e, "internal server error")
    \/ Contains(e, "bad gateway")
    \/ Contains(e, "gateway timeout")

isQuotaExceededError(e) ==
    \/ Contains(e, "quota")
    \/ Contains(e, "quota exceeded")
    \/ Contains(e, "daily limit")
    \/ Contains(e, "403")

\* Classify with the quota test ahead of the tests for the retryable classes.
ClassifyQuotaFirst(e) ==
    IF isRPDQuotaError(e) THEN "rpd"
    ELSE IF isQuotaExceededError(e) THEN "quota"
    ELSE IF isRateLimitError(e) THEN "rateLimit"
    ELSE IF isServiceUnavailableError(e) THEN "unavailable"
    ELSE IF isTemporaryError(e) THEN "temporary"
    ELSE "other"

\* The branch of GenerateText's error handling that an error text takes.
Classify(e) ==
    IF isRPDQuotaError(e) THEN "rpd"
    ELSE IF isRateLimitError(e) THEN "rateLimit"
    ELSE IF isServiceUnavailableError(e) THEN "unavailable"
    ELSE IF isTemporaryError(e) THEN "temporary"
    ELSE IF isQuotaExceededError(e) THEN "quota"
    ELSE "other"

ErrRPDQuota == "gemini API RPD quota exceeded (daily limit reached)"

ErrQuota == "gemini API quota exceeded"

ErrGenerate == "generate content"

ErrGetText == "get text from result"

ErrMaxRetries == "max retries exceeded"

\* fmt.Errorf(marker + ": %w", err)
Wrapped(marker, err) == [kind |-> "error", marker |-> marker, err |-> err]

Min(a, b) == IF a < b THEN a ELSE b

\* The wait chosen at the top of the loop for attempt > 0.
RetryDelay(g) ==
    IF g.isServiceUnavailable THEN serviceUnavailableDelay
    ELSE IF g.isRateLimitRPMTPM THEN rateLimitDelay
    ELSE Min(baseDelay * g.attempt, maxBackoff)

\* Continue with a loop test that lets one attempt too many through.
ContinueOneMore(g) ==
    LET h == [g EXCEPT !.attempt = g.attempt + 1]
    IN IF h.attempt <= maxRetries
       THEN [h EXCEPT !.pc = "wait", !.remaining = RetryDelay(h)]
       ELSE [h EXCEPT !.pc = "done",
                      !.ret = Wrapped(ErrMaxRetries, h.lastErr)]

\* continue: attempt++, then the loop test and the choice of the wait.
Continue(g) ==
    LET h == [g EXCEPT !.attempt = g.attempt + 1]
    IN IF h.attempt < maxRetries
       THEN [h EXCEPT !.pc = "wait", !.remaining = RetryDelay(h)]
       ELSE [h EXCEPT !.pc = "done",
                      !.ret = Wrapped(ErrMaxRetries, h.lastErr)]

\* GenerateText's local state on entry; the context may be cancelled already.
GenStart(cancelled) ==
    [pc |-> "call", attempt |-> 0, lastErr |-> {}, isServiceUnavailable |-> FALSE,
     isRateLimitRPMTPM |-> FALSE, remaining |-> 0, cancelled |-> cancelled,
     ret |-> [kind |-> "none"], calls |-> <<>>]

\* OnError that treats the daily-quota 429 as any other 429 and retries it.
OnErrorRetriesQuota(g, e) ==
    LET h == [g EXCEPT !.lastErr = e]
        c == Classify(e)
    IN IF c \in {"rpd", "rateLimit"}
       THEN Continue([h EXCEPT !.isServiceUnavailable = FALSE,
                               !.isRateLimitRPMTPM = TRUE])
       ELSE IF c = "unavailable"
       THEN Continue([h EXCEPT !.isServiceUnavailable = TRUE,
                               !.isRateLimitRPMTPM = FALSE])
       ELSE IF c = "temporary"
       THEN Continue([h EXCEPT !.isServiceUnavailable = FALSE,
                               !.isRateLimitRPMTPM = FALSE])
       ELSE IF c = "quota"
       THEN [h EXCEPT !.pc = "done", !.ret = Wrapped(ErrQuota, e),
                      !.isServiceUnavailable = FALSE,
                      !.isRateLimitRPMTPM = FALSE]
       ELSE [h EXCEPT !.pc = "done", !.ret = Wrapped(ErrGenerate, e),
                      !.isServiceUnavailable = FALSE,
                      !.isRateLimitRPMTPM = FALSE]

\* The handling of a failed GenerateContent call: lastErr = err, then the
\* classification and either a return or continue.
OnError(g, e) ==
    LET h == [g EXCEPT !.lastErr = e]
        c == Classify(e)
    IN IF c = "rpd"
       THEN [h EXCEPT !.pc = "done", !.ret = Wrapped(ErrRPDQuota, e)]
       ELSE IF c = "rateLimit"
       THEN Continue([h EXCEPT !.isServiceUnavailable = FALSE,
                               !.isRateLimitRPMTPM = TRUE])
       ELSE IF c = "unavailable"
       THEN Continue([h EXCEPT !.isServiceUnavailable = TRUE,
                               !.isRateLimitRPMTPM = FALSE])
       ELSE IF c = "temporary"
       THEN Continue([h EXCEPT !.isServiceUnavailable = FALSE,
                               !.isRateLimitRPMTPM = FALSE])
       ELSE IF c = "quota"
       THEN [h EXCEPT !.pc = "done", !.ret = Wrapped(ErrQuota, e),
                      !.isServiceUnavailable = FALSE,
                      !.isRateLimitRPMTPM = FALSE]
       ELSE [h EXCEPT !.pc = "done", !.ret = Wrapped(ErrGenerate, e),
                      !.isServiceUnavailable = FALSE,
                      !.isRateLimitRPMTPM = FALSE]

\* What the rest of the model does while GenerateText runs on its own.
PipelineIdle ==
    UNCHANGED <<files, clock, runsLeft, pc, p, fallback, locals, result, calls,
                sendArgs, startState, delivered, quotaIn>>

\* c.client.Models.GenerateContent returns: a result with text, a result
\* whose Text() fails, or an error.  probe.calls records what each call
\* returned: "text", "noText", or the class of the error.
GenCall ==
    /\ probe.pc = "call"
    /\ \/ probe' = [probe EXCEPT !.pc = "done", !.ret = [kind |-> "text"],
                                  !.calls = Append(@, "text")]
       \/ probe' = [probe EXCEPT !.pc = "done",
                                  !.ret = Wrapped(ErrGetText, {}),
                                  !.calls = Append(@, "noText")]
       \/ \E e \in ErrTexts :
             probe' = OnError([probe EXCEPT !.calls = Append(@, Classify(e))], e)
    /\ PipelineIdle

\* The timer of time.After(delay) runs down.  A goroutine blocked in the
\* select is woken as soon as ctx.Done() is closed, so no timer step passes
\* between the cancellation and the select's return.
GenTimer ==
    /\ probe.pc = "wait"
    /\ probe.remaining > 0
    /\ ~probe.cancelled
    /\ probe' = [probe EXCEPT
                    !.remaining = IF @ > TimerStep THEN @ - TimerStep ELSE 0]
    /\ PipelineIdle

\* select: case <-time.After(delay)
GenWaitOver ==
    /\ probe.pc = "wait"
    /\ probe.remaining = 0
    /\ probe' = [probe EXCEPT !.pc = "call"]
    /\ PipelineIdle

\* The wait as time.Sleep(delay): a cancelled context is not looked at.
GenWaitSleepsOn ==
    /\ probe.pc = "wait"
    /\ probe.cancelled
    /\ probe' = [probe EXCEPT !.remaining = 0]
    /\ PipelineIdle

\* select: case <-ctx.Done(): return "", ctx.Err()
GenWaitCancelled ==
    /\ probe.pc = "wait"
    /\ probe.cancelled
    /\ probe' = [probe EXCEPT !.pc = "done",
                               !.ret = Wrapped(ErrCanceled, {})]
    /\ PipelineIdle

\* The caller's context is cancelled.
GenCancel ==
    /\ probe.pc # "done"
    /\ ~probe.cancelled
    /\ probe' = [probe EXCEPT !.cancelled = TRUE]
    /\ PipelineIdle

InitGen ==
    /\ InitRun
    /\ stateFile = EmptyState
    /\ digestFile = <<>>
    /\ startState = stateFile
    /\ runsLeft = 0
    /\ \E cancelled \in BOOLEAN : probe = GenStart(cancelled)

NextGen ==
    \/ GenCall
    \/ GenTimer
    \/ GenWaitOver
    \/ GenWaitCancelled
    \/ GenCancel

SpecGen == InitGen /\ [][NextGen]_vars

\* ------------------------------------------------ Categorizer.categorizeBatch
\* "Другое / Разное", written with a letter of its own.
DefaultCategory == <<"d">>

\* Categorizer.categories, as configured.
categories == << <<"a">>, <<"a", "a">>, DefaultCategory >>

\* strings.EqualFold over the model's alphabet.
EqualFold(s, t) == ToLower(s) = ToLower(t)

isValidCategory(category) ==
    \E i \in 1..Len(categories) :
        EqualFold(TrimSpace(category), TrimSpace(categories[i]))

\* Two feed items whose <link> holds only blanks and whose pubDate is the
\* same get the same id from buildArticleID and an empty URL; the filter
\* tells them apart by title and keeps both.
ArtNoLink1 == [ID |-> 1006, URL |-> <<>>, Title |-> <<"a">>, PublishedAt |-> 20,
               RawContent |-> [lead |-> 0, runes |-> 120, trail |-> 0]]

ArtNoLink2 == [ID |-> 1006, URL |-> <<>>, Title |-> <<"a", "a">>, PublishedAt |-> 20,
               RawContent |-> [lead |-> 0, runes |-> 120, trail |-> 0]]

\* articleMap: the last article of the batch under each id.
RECURSIVE LastWithID(_, _)
LastWithID(batch, id) ==
    IF batch[Len(batch)].ID = id THEN batch[Len(batch)]
    ELSE LastWithID(SubSeqTo(batch, Len(batch) - 1), id)

\* The first article of the batch under an id.
RECURSIVE FirstWithID(_, _)
FirstWithID(batch, id) ==
    IF Head(batch).ID = id THEN Head(batch)
    ELSE FirstWithID(Tail(batch), id)

Categorized(article, category) ==
    [Article |-> article, Category |-> category, RelevanceScore |-> 0]

\* The loop over the response: categorizedMap as a function from ids;
\* entries whose id is not in the batch are skipped, a later entry for an id
\* replaces an earlier one.
RECURSIVE FromResponse(_, _, _)
FromResponse(batch, response, categorizedMap) ==
    IF response = <<>> THEN categorizedMap
    ELSE LET catResp  == Head(response)
             inBatch  == catResp.ID \in {batch[i].ID : i \in 1..Len(batch)}
             category == IF isValidCategory(TrimSpace(catResp.Category))
                         THEN TrimSpace(catResp.Category)
                         ELSE DefaultCategory
         IN IF ~inBatch
            THEN FromResponse(batch, Tail(response), categorizedMap)
            ELSE FromResponse(batch, Tail(response),
                     [id \in DOMAIN categorizedMap \cup {catResp.ID} |->
                         IF id = catResp.ID
                         THEN Categorized(LastWithID(batch, id), category)
                         ELSE categorizedMap[id]])

\* categorizeBatch on a response that parsed: the response loop, the
\* fallback loop, and the results in the order of the batch.
categorizeBatch(batch, response) ==
    LET answered == FromResponse(batch, response, <<>>)
        entry(id) == IF id \in DOMAIN answered THEN answered[id]
                     ELSE Categorized(FirstWithID(batch, id), DefaultCategory)
    IN [i \in 1..Len(batch) |-> entry(batch[i].ID)]

\* The batches categorizeBatch is tried on.
Batches ==
    {<<Art1>>, <<Art1, Art2>>, <<Art2, Art1>>, <<Art2, Art4, Art1>>,
     <<ArtNoLink1, ArtNoLink2>>}

\* Categories the model may answer with: configured ones, in another case
\* or padded with blanks, and ones that are not configured.
ResponseCategories ==
    {<<"a">>, <<"A">>, <<" ", "a", "a", " ">>, <<"A", " ", "a">>, <<>>}

\* Ids of response entries: ids of the articles above and one of no article.
ResponseEntries ==
    [ID : {1001, 1002, 1006, 9999}, Category : ResponseCategories]

Responses == SeqsUpTo(ResponseEntries, MaxResponse)

InitCategorize ==
    /\ InitRun
    /\ stateFile = EmptyState
    /\ digestFile = <<>>
    /\ startState = stateFile
    /\ runsLeft = 0
    /\ \E batch \in Batches : \E response \in Responses :
          probe = [articles |-> batch, response |-> response,
                   results |-> <<>>, returned |-> FALSE]

\* results, err := c.categorizeBatch(ctx, batch), the response having parsed.
CategorizeBatch ==
    /\ ~probe.returned
    /\ probe' = [probe EXCEPT
                    !.results = categorizeBatch(probe.articles, probe.response),
                    !.returned = TRUE]
    /\ PipelineIdle

NextCategorize == CategorizeBatch

SpecCategorize == InitCategorize /\ [][NextCategorize]_vars

\* -------------------------------------------------------------- Ranker.Rank
\* The key under which Rank groups an article: an empty category counts as
\* the default one.
GroupKey(x) == IF x.Category = <<>> THEN DefaultCategory ELSE x.Category

\* byCategory[c]: the articles of a category, in input order.
byCategory(categorized, c) == SelectSeq(categorized, LAMBDA x : GroupKey(x) = c)

CategoriesOf(categorized) == {GroupKey(categorized[i]) : i \in 1..Len(categorized)}

\* Scores a response may carry, before they are clamped to 0..10.
RawScores == {-1, 7, 11}

Clamp(score) == IF score < 0 THEN 0 ELSE IF score > 10 THEN 10 ELSE score

\* The parsed responses to the request for a category: a score for some of
\* its articles.
ScoreResponses(arts) ==
    UNION {[S -> RawScores] : S \in SUBSET {arts[i].Article.ID : i \in 1..Len(arts)}}

\* rankBatch on a response that parsed: the articles in input order, each
\* with its clamped score, or 5 when the response has none for it.
rankBatch(arts, scores) ==
    [i \in 1..Len(arts) |->
        [arts[i] EXCEPT !.RelevanceScore =
            IF arts[i].Article.ID \in DOMAIN scores
            THEN Clamp(scores[arts[i].Article.ID]) ELSE 5]]

\* What the request for a category can come to: the call fails (with or
\* without the quota marker, or the response does not parse), or scores.
RankOutcomes(arts) ==
    {[failed |-> TRUE, kind |-> k, scores |-> <<>>] : k \in {"quota", "error"}}
    \cup {[failed |-> FALSE, kind |-> "text", scores |-> sc] : sc \in ScoreResponses(arts)}

ByScore(s) ==
    \A i \in 1..Len(s) : \A j \in 1..Len(s) :
        i < j => s[i].RelevanceScore >= s[j].RelevanceScore

\* The slice left in the order rankCategory gave it.
Unsorted(s) == {s}

\* sort.Slice by RelevanceScore descending: a slice already in order is
\* left as it is; otherwise equal scores may land in any order.
SortedByScore(s) ==
    IF ByScore(s) THEN {s}
    ELSE {t \in InjSeqs(Range(s)) : Len(t) = Len(s) /\ ByScore(t)}

\* scored = scored[:r.maxPerCategory]
Capped(s) ==
    IF Len(s) > cfg.MaxArticlesPerCategory
    THEN SubSeqTo(s, cfg.MaxArticlesPerCategory) ELSE s

\* rankCategory with the fallback to the unscored articles without the
\* articles: a category whose request fails contributes nothing.
scoredCategoryDropsOnError(arts, outcome) ==
    IF outcome.failed THEN <<>> ELSE rankBatch(arts, outcome.scores)

\* scored, err := r.rankCategory(...); if err != nil { scored = articles }
scoredCategory(arts, outcome) ==
    IF outcome.failed THEN arts ELSE rankBatch(arts, outcome.scores)

\* What one pass of the loop body appends to results.
RankedCategory(arts, outcome) ==
    {Capped(t) : t \in SortedByScore(scoredCategory(arts, outcome))}

\* The categorizer's outputs Rank is tried on: up to four articles, each
\* under a configured category, the default one, or none.
Unranked ==
    LET lists == {<<Art1>>, <<Art2, Art1>>, <<Art4, Art1, Art2>>,
                  <<Art4, Art1, Art2, ArtNoLink1>>}
        cats  == {<<"a">>, DefaultCategory, <<>>}
    IN UNION {{[i \in 1..Len(l) |-> Categorized(l[i], c[i])] :
                  c \in [1..Len(l) -> cats]} : l \in lists} \cup {<<>>}

\* probe holds Rank's input and its locals: the categories still to be
\* visited, results, the categories whose request failed, scored as it was
\* before the sort in each pass, and what Rank returned.
InitRank ==
    /\ InitRun
    /\ stateFile = EmptyState
    /\ digestFile = <<>>
    /\ startState = stateFile
    /\ runsLeft = 0
    /\ \E c \in Unranked :
          probe = [categorized |-> c, pc |-> "start", todo |-> {},
                   results |-> <<>>, failed |-> {}, scored |-> <<>>,
                   err |-> ""]

\* if len(categorized) == 0 { return nil, nil }; the grouping by category.
RankStart ==
    /\ probe.pc = "start"
    /\ probe' = IF probe.categorized = <<>>
                THEN [probe EXCEPT !.pc = "done"]
                ELSE [probe EXCEPT !.pc = "loop",
                                   !.todo = CategoriesOf(probe.categorized)]
    /\ PipelineIdle

\* One pass of the loop over byCategory, in the order the map yields: the
\* wait (from the second category on), the request, the fallback, the sort,
\* the cut and the append.
RankCategory ==
    /\ probe.pc = "loop"
    /\ \E c \in probe.todo :
          LET arts == byCategory(probe.categorized, c)
          IN \E outcome \in RankOutcomes(arts) :
                \E scored \in RankedCategory(arts, outcome) :
                   probe' = [probe EXCEPT
                       !.results = @ \o scored,
                       !.failed = IF outcome.failed THEN @ \cup {c} ELSE @,
                       !.scored = (c :> scoredCategory(arts, outcome)) @@ @,
                       !.todo = @ \ {c},
                       !.pc = IF probe.todo = {c} THEN "done" ELSE "loop"]
    /\ PipelineIdle

\* The wait before the second and later categories is cancelled.
RankWaitCancelled ==
    /\ probe.pc = "loop"
    /\ probe.todo # CategoriesOf(probe.categorized)
    /\ probe' = [probe EXCEPT !.pc = "done", !.results = <<>>,
                               !.err = ErrCanceled]
    /\ PipelineIdle

NextRank ==
    \/ RankStart
    \/ RankCategory
    \/ RankWaitCancelled

SpecRank == InitRank /\ [][NextRank]_vars

\* ------------------------------------------------------------- Filter.Apply
\* Art2 again with its URL in another case and padded with blanks, which
\* gives it another id.
Art6 == [Art2 EXCEPT !.ID = 1007, !.URL = <<" ", "A", "a">>]

\* time.Now() as Filter.Apply reads it.
Nows == {50, 60}

\* Publication instants around the two ends of the window.
Stamps(now) ==
    {now - cfg.RecencyMaxHours - 1, now - cfg.RecencyMaxHours, now, now + 1}

\* The articles Apply is tried on: long and short content, two spellings of
\* one URL, each published at one of the instants.
Stamped(now) ==
    {[a EXCEPT !.PublishedAt = t] : a \in {Art1, Art2, Art6, Art5}, t \in Stamps(now)}

\* Lists of up to MaxBatch different feed items.
FilterBatches(now) ==
    {b \in SeqsUpTo(Stamped(now), MaxBatch) : Cardinality(Range(b)) = Len(b)}

\* probe holds Apply's arguments as they are after the call, the instant
\* the last call read, its results, and the number of calls made.
InitFilter ==
    /\ InitRun
    /\ stateFile = EmptyState
    /\ digestFile = <<>>
    /\ startState = stateFile
    /\ runsLeft = 0
    /\ \E now \in Nows : \E batch \in FilterBatches(now) :
          \E ledger \in {<<>>, <<[ID |-> 1002, SentAt |-> 0]>>} :
             probe = [articles |-> batch,
                      state |-> [EmptyState EXCEPT !.SentArticles = ledger],
                      now |-> now, filtered |-> <<>>, err |-> "",
                      applied |-> FALSE, times |-> 0]

\* Apply written to filter in place (filtered := articles[:0]): the kept
\* articles overwrite the head of the caller's list.
ApplyFilterInPlace ==
    /\ probe.times < 2
    /\ \E t \in {probe.now} \cup (IF probe.applied THEN {probe.now + 1} ELSE {}) :
          LET filtered == Apply(probe.articles, probe.state, t)
          IN probe' = [probe EXCEPT
                          !.now = t,
                          !.filtered = filtered,
                          !.articles = filtered \o SubSeq(probe.articles,
                                           Len(filtered) + 1, Len(probe.articles)),
                          !.err = "",
                          !.applied = TRUE,
                          !.times = @ + 1]
    /\ PipelineIdle

\* filtered, err := f.Apply(ctx, articles, state), called once and then
\* once more on the same arguments; the second call reads time.Now() again.
ApplyFilter ==
    /\ probe.times < 2
    /\ \E t \in {probe.now} \cup (IF probe.applied THEN {probe.now + 1} ELSE {}) :
          probe' = [probe EXCEPT
                       !.now = t,
                       !.filtered = Apply(probe.articles, probe.state, t),
                       !.err = "",
                       !.applied = TRUE,
                       !.times = @ + 1]
    /\ PipelineIdle

NextFilter == ApplyFilter

SpecFilter == InitFilter /\ [][NextFilter]_vars

\* ---------------------------------------------------------------- FileStore
\* A file is kept as what json.Unmarshal makes of it: whether it exists, the
\* State whose MarshalIndent rendering its bytes are or begin (of), how many
\* of the rendering's Whole parts it holds (written), and whether its bytes
\* were never such a rendering (foreign).
Absent == [exists |-> FALSE, of |-> EmptyState, written |-> 0, foreign |-> FALSE]

\* json.MarshalIndent(state, "", "  ")
Marshal(st) == [exists |-> TRUE, of |-> st, written |-> Whole, foreign |-> FALSE]

Cut(data, k) == [data EXCEPT !.written = k]

\* TRUE when json.Unmarshal(data, &state) returns nil.
Parses(data) == data.exists /\ ~data.foreign /\ data.written = Whole

\* os.WriteFile(path, data, 0644) that fails: the file could not be opened
\* and is as before, or it was truncated and holds a part of data.
WriteFileFailed(file, data) ==
    {file} \cup {Cut(data, k) : k \in 0..(data.written - 1)}

\* os.WriteFile(path, data, 0644): done, or failed.
WriteFile(file, data) ==
    {[ok |-> TRUE, file |-> data]}
    \cup {[ok |-> FALSE, file |-> f] : f \in WriteFileFailed(file, data)}

\* States a run may hand to Save.
Saved1 ==
    [EmptyState EXCEPT !.LastRun = 1,
                       !.SentArticles = <<[ID |-> 1001, SentAt |-> 1]>>]

Saved2 == [Saved1 EXCEPT !.LastRun = 2, !.Recipients = <<1>>]

\* What may lie at the state path: nothing, a saved state, bytes that are no
\* JSON, the beginning of a rendering, an empty file.
StateFiles ==
    {Absent, Marshal(Saved1),
     [exists |-> TRUE, of |-> EmptyState, written |-> 1, foreign |-> TRUE],
     Cut(Marshal(Saved1), 1), Cut(Marshal(Saved1), 0)}

\* probe holds the three files of the store, the state file as it was at
\* the start, what Load returned, and the position of each process that
\* calls Save.
InitStore ==
    /\ InitRun
    /\ stateFile = EmptyState
    /\ digestFile = <<>>
    /\ startState = stateFile
    /\ runsLeft = 0
    /\ \E f \in StateFiles :
       \E b \in {Absent, [exists |-> TRUE, of |-> EmptyState, written |-> 1,
                            foreign |-> TRUE]} :
       \E t \in {Absent, Cut(Marshal(Saved1), 1)} :
       \E st \in {Saved1, Saved2} :
          probe = [fs |-> [state |-> f, broken |-> b, tmp |-> t],
                   before |-> f,
                   load |-> [called |-> FALSE, read |-> Absent,
                             state |-> EmptyState, err |-> ""],
                   save |-> [w \in {1} |->
                               [pc |-> "marshal", state |-> st,
                                data |-> Absent, err |-> ""]]]

\* FileStore.Load: ReadFile, Unmarshal, the copy to the .broken sibling.
StoreLoad ==
    /\ ~probe.load.called
    /\ LET data == probe.fs.state
       IN \/ /\ ~data.exists
             /\ probe' = [probe EXCEPT !.load = [called |-> TRUE, read |-> data,
                              state |-> EmptyState, err |-> ""]]
          \/ /\ data.exists
             /\ probe' = [probe EXCEPT !.load = [called |-> TRUE, read |-> data,
                              state |-> EmptyState, err |-> "read state file"]]
          \/ /\ Parses(data)
             /\ probe' = [probe EXCEPT !.load = [called |-> TRUE, read |-> data,
                              state |-> data.of, err |-> ""]]
          \/ /\ data.exists /\ ~Parses(data)
             /\ \E w \in WriteFile(probe.fs.broken, data) :
                   probe' = [probe EXCEPT
                       !.fs.broken = w.file,
                       !.load = [called |-> TRUE, read |-> data,
                                 state |-> EmptyState, err |-> ""]]
    /\ PipelineIdle

\* One step of Save in process w, to position pc with error err.
SaveStep(w, pc1, err1) ==
    [probe EXCEPT !.save[w].pc = pc1, !.save[w].err = err1]

\* data, err := json.MarshalIndent(state, "", "  ")
SaveMarshal(w) ==
    /\ probe.save[w].pc = "marshal"
    /\ probe' = [SaveStep(w, "mkdir", "") EXCEPT
                    !.save[w].data = Marshal(probe.save[w].state)]
    /\ PipelineIdle

\* os.MkdirAll(dir, 0755)
SaveMkdir(w) ==
    /\ probe.save[w].pc = "mkdir"
    /\ \/ probe' = SaveStep(w, "write", "")
       \/ probe' = SaveStep(w, "done", "create state directory")
    /\ PipelineIdle

\* Save that writes the data to the state path itself.
SaveWriteInPlace(w) ==
    /\ probe.save[w].pc = "write"
    /\ \E r \in WriteFile(probe.fs.state, probe.save[w].data) :
          \/ /\ r.ok
             /\ probe' = [SaveStep(w, "done", "") EXCEPT !.fs.state = r.file]
          \/ /\ ~r.ok
             /\ \E pc1 \in {"done", "crashed"} :
                   probe' = [SaveStep(w, pc1, "write temp state file")
                                EXCEPT !.fs.state = r.file]
    /\ PipelineIdle

\* os.WriteFile(tmpPath, data, 0644); the process may die while writing.
SaveWriteTmp(w) ==
    /\ probe.save[w].pc = "write"
    /\ \E r \in WriteFile(probe.fs.tmp, probe.save[w].data) :
          \/ /\ r.ok
             /\ probe' = [SaveStep(w, "rename", "") EXCEPT !.fs.tmp = r.file]
          \/ /\ ~r.ok
             /\ \E pc1 \in {"done", "crashed"} :
                   probe' = [SaveStep(w, pc1, "write temp state file")
                                EXCEPT !.fs.tmp = r.file]
    /\ PipelineIdle

\* os.Rename(tmpPath, s.path): the state path takes over the file at the
\* temporary path in one step, or nothing changes.
SaveRename(w) ==
    /\ probe.save[w].pc = "rename"
    /\ \/ /\ probe.fs.tmp.exists
          /\ probe' = [SaveStep(w, "done", "") EXCEPT
                          !.fs.state = probe.fs.tmp, !.fs.tmp = Absent]
       \/ probe' = SaveStep(w, "remove", "")
    /\ PipelineIdle

\* _ = os.Remove(tmpPath) after a failed rename.
SaveRemove(w) ==
    /\ probe.save[w].pc = "remove"
    /\ \/ probe' = [SaveStep(w, "done", "rename temp state file") EXCEPT
                       !.fs.tmp = Absent]
       \/ probe' = SaveStep(w, "done", "rename temp state file")
    /\ PipelineIdle

\* The process is killed between two steps of Save.
SaveKilled(w) ==
    /\ probe.save[w].pc \in {"mkdir", "write", "rename", "remove"}
    /\ probe' = SaveStep(w, "crashed", "killed")
    /\ PipelineIdle

NextStore ==
    \/ StoreLoad
    \/ \E w \in DOMAIN probe.save : SaveMarshal(w)
    \/ \E w \in DOMAIN probe.save : SaveMkdir(w)
    \/ \E w \in DOMAIN probe.save : SaveWriteTmp(w)
    \/ \E w \in DOMAIN probe.save : SaveRename(w)
    \/ \E w \in DOMAIN probe.save : SaveRemove(w)
    \/ \E w \in DOMAIN probe.save : SaveKilled(w)

SpecStore == InitStore /\ [][NextStore]_vars

\* -------------------------------------------------------------- Sender.Send
\* The pair after (i, j) in the loops over recipients and messages, or
\* <<0, 0>> when (i, j) is the last one.
NextPair(i, j, nMessages, nRecipients) ==
    IF j < nMessages THEN <<i, j + 1>>
    ELSE IF i < nRecipients THEN <<i + 1, 1>>
    ELSE <<0, 0>>

\* What client.SendMessage can return: nil, an error isRetryableError
\* accepts, an error it refuses (chat not found, bot was blocked, ...).
SendOutcomes == {"ok", "retryable", "final"}

\* probe holds Send's arguments as their lengths, the pair the loops are
\* at, the attempt of sendWithRetry, the pairs for which SendMessage was
\* called, the pairs whose delivery failed, and what Send returned.
InitSend ==
    /\ InitRun
    /\ stateFile = EmptyState
    /\ digestFile = <<>>
    /\ startState = stateFile
    /\ runsLeft = 0
    /\ \E nr \in 0..MaxRecipients : \E nm \in 0..MaxMessages :
          probe = [recipients |-> nr, messages |-> nm, pc |-> "start",
                   i |-> 0, j |-> 0, attempt |-> 0, attempted |-> {},
                   failed |-> {}, sentCount |-> 0, cancelled |-> FALSE,
                   ret |-> ""]

\* Send returns r.
SendReturns(r) == [probe EXCEPT !.pc = "done", !.ret = r]

\* continue, or sentCount++: on to the next pair, or out of the loops.
SendNext(q) ==
    LET n == NextPair(q.i, q.j, q.messages, q.recipients)
    IN IF n = <<0, 0>> THEN [q EXCEPT !.pc = "done", !.ret = "ok"]
       ELSE [q EXCEPT !.pc = "pace", !.i = n[1], !.j = n[2], !.attempt = 0]

\* The checks of the arguments.
SendStart ==
    /\ probe.pc = "start"
    /\ probe' = IF probe.recipients = 0 THEN SendReturns("no recipients provided")
                ELSE IF probe.messages = 0 THEN SendReturns("no messages to send")
                ELSE [probe EXCEPT !.pc = "pace", !.i = 1, !.j = 1]
    /\ PipelineIdle

\* The pause that keeps the rate limit: not needed, waited out, or cut
\* short by the cancelled context.
SendPace ==
    /\ probe.pc = "pace"
    /\ \/ probe' = [probe EXCEPT !.pc = "call"]
       \/ /\ probe.cancelled
          /\ probe' = SendReturns(ErrCanceled)
    /\ PipelineIdle

\* Send that gives up on the first delivery that fails.
SendAttemptAborts ==
    /\ probe.pc = "call"
    /\ \E outcome \in SendOutcomes :
          LET q == [probe EXCEPT !.attempted = @ \cup {<<probe.i, probe.j>>}]
          IN probe' =
               IF outcome = "ok"
               THEN SendNext([q EXCEPT !.sentCount = @ + 1])
               ELSE [q EXCEPT !.pc = "done", !.ret = "send message",
                              !.failed = @ \cup {<<probe.i, probe.j>>}]
    /\ PipelineIdle

\* s.client.SendMessage inside sendWithRetry, and what Send does with the
\* result of sendWithRetry once it has one.
SendAttempt ==
    /\ probe.pc = "call"
    /\ \E outcome \in SendOutcomes :
          LET q == [probe EXCEPT !.attempted = @ \cup {<<probe.i, probe.j>>}]
              lost == [q EXCEPT !.failed = @ \cup {<<probe.i, probe.j>>}]
          IN probe' =
               IF outcome = "ok"
               THEN SendNext([q EXCEPT !.sentCount = @ + 1])
               ELSE IF outcome = "final" THEN SendNext(lost)
               ELSE IF probe.attempt + 1 < retryAttempts
                    THEN [q EXCEPT !.pc = "retryWait", !.attempt = @ + 1]
               ELSE SendNext(lost)
    /\ PipelineIdle

\* The pause before a retry: waited out, or cut short by the cancelled
\* context, which sendWithRetry returns as the delivery's error.
SendRetryWait ==
    /\ probe.pc = "retryWait"
    /\ probe' = IF probe.cancelled
                THEN SendNext([probe EXCEPT
                                  !.failed = @ \cup {<<probe.i, probe.j>>}])
                ELSE [probe EXCEPT !.pc = "call"]
    /\ PipelineIdle

\* The context is cancelled while Send runs.
SendCancel ==
    /\ probe.pc \notin {"start", "done"}
    /\ ~probe.cancelled
    /\ probe' = [probe EXCEPT !.cancelled = TRUE]
    /\ PipelineIdle

NextSend ==
    \/ SendStart
    \/ SendPace
    \/ SendAttempt
    \/ SendRetryWait
    \/ SendCancel

SpecSend == InitSend /\ [][NextSend]_vars

\* ------------------------------------- summarizeBatch and rankBatch
\* Summaries a response may carry for an article.
SummaryTexts == {<<>>, <<" ">>, <<"s">>, <<" ", "s", " ">>}

\* The batches the two functions are tried on; the last one holds two
\* articles under one id.
SummaryBatches ==
    {[i \in 1..Len(l) |-> Categorized(l[i], <<"a">>)] :
        l \in {<<Art1>>, <<Art2, Art1>>, <<Art4, Art1, Art2>>,
               <<ArtNoLink1, ArtNoLink2>>}}

\* The parsed responses to a summary request: up to MaxResponse entries, for
\* articles of the batch or for an id that is not in it.
SummaryResponses(arts) ==
    LET ids1 == {arts[i].Article.ID : i \in 1..Len(arts)} \cup {0}
        entry == [ID : ids1, SummaryRU : SummaryTexts]
    IN UNION {[1..n -> entry] : n \in 0..MaxResponse}

\* summariesMap: for each id the trimmed summary of its last entry that
\* is not blank.
summariesMap(response) ==
    LET filled == {k \in 1..Len(response) : TrimSpace(response[k].SummaryRU) # <<>>}
    IN [id \in {response[k].ID : k \in filled} |->
           TrimSpace(response[CHOOSE k \in filled :
                                 /\ response[k].ID = id
                                 /\ \A m \in filled :
                                       response[m].ID = id => m <= k].SummaryRU)]

DigestEntry(catArticle, summaryRU) ==
    [ID |-> catArticle.Article.ID, Category |-> catArticle.Category,
     Title |-> catArticle.Article.Title, URL |-> catArticle.Article.URL,
     SummaryRU |-> summaryRU, PublishedAt |-> catArticle.Article.PublishedAt]

\* summarizeBatch that leaves out the articles the response has no summary for.
summarizeBatchDropsMissing(arts, response) ==
    LET m == summariesMap(response)
        answered == SelectSeq(arts, LAMBDA x : x.Article.ID \in DOMAIN m)
    IN [i \in 1..Len(answered) |-> DigestEntry(answered[i], m[answered[i].Article.ID])]

\* summarizeBatch on a response that parsed: one entry per article in input
\* order, with the summary of the response or, failing that, the title.
summarizeBatch(arts, response) ==
    LET m == summariesMap(response)
    IN [i \in 1..Len(arts) |->
           DigestEntry(arts[i],
                       IF arts[i].Article.ID \in DOMAIN m /\ m[arts[i].Article.ID] # <<>>
                       THEN m[arts[i].Article.ID]
                       ELSE arts[i].Article.Title)]

\* probe holds the batch, which of the two functions is called, the parsed
\* response and what the function returned.
InitBatch ==
    /\ InitRun
    /\ stateFile = EmptyState
    /\ digestFile = <<>>
    /\ startState = stateFile
    /\ runsLeft = 0
    /\ \E batch \in SummaryBatches :
          probe = [articles |-> batch, op |-> "", response |-> <<>>,
                   results |-> <<>>, returned |-> FALSE]

\* results, err := s.summarizeBatch(ctx, batch, articleMap)
SummarizeBatch ==
    /\ ~probe.returned
    /\ \E response \in SummaryResponses(probe.articles) :
          probe' = [probe EXCEPT
                       !.op = "summarize",
                       !.response = response,
                       !.results = summarizeBatch(probe.articles, response),
                       !.returned = TRUE]
    /\ PipelineIdle

\* results, err := r.rankBatch(ctx, category, batch)
RankBatch ==
    /\ ~probe.returned
    /\ \E scores \in ScoreResponses(probe.articles) :
          probe' = [probe EXCEPT
                       !.op = "rank",
                       !.response = scores,
                       !.results = rankBatch(probe.articles, scores),
                       !.returned = TRUE]
    /\ PipelineIdle

NextBatch ==
    \/ SummarizeBatch
    \/ RankBatch

SpecBatch == InitBatch /\ [][NextBatch]_vars

\* ----------------------------------------------- the request loop of a stage
\* categorizeWithGemini, Summarizer.Summarize and Ranker.Rank share one loop:
\* wait out the rest of the minimum delay (not before the first request),
\* send the request for the next batch or category, append its results.
RequestLoops == {"categorize", "rank", "summarize"}

minDelayBetweenRequests(stage) ==
    IF stage = "categorize" THEN categorizeDelay
    ELSE IF stage = "rank" THEN rankDelay ELSE summarizeDelay

\* A loop that sends every article in a request of its own.
effectiveBatchSizeOne(stage, n, batchSize) == 1

\* effectiveBatchSize; the ranker sends one request per category.
effectiveBatchSize(stage, n, batchSize) ==
    IF stage = "rank" THEN 1 ELSE IF n <= batchSize THEN n ELSE batchSize

\* Seconds a request takes, and seconds that pass between the end of a
\* request and the next reading of the clock.
RequestTime == 6

Lags(stage) == {0, 6, minDelayBetweenRequests(stage)}

\* probe holds the loop's locals: the units are numbered 1..n; requests
\* lists, for each request, the units sent and when it began and ended.
InitStage ==
    /\ InitRun
    /\ stateFile = EmptyState
    /\ digestFile = <<>>
    /\ startState = stateFile
    /\ runsLeft = 0
    /\ \E stage \in RequestLoops : \E n \in 0..MaxStageUnits : \E size \in 1..MaxBatchSize :
          /\ stage = "rank" => size = 1
          /\ probe = [stage |-> stage, n |-> n, batchSize |-> size, pc |-> "start",
                      step |-> 0, i |-> 0, requestCount |-> 0, now |-> 0,
                      lastRequestTime |-> 0, remaining |-> 0, cancelled |-> FALSE,
                      requests |-> <<>>, results |-> <<>>, err |-> ""]

\* if len(articles) == 0 { return nil, nil }; the choice of the step.
StageStart ==
    /\ probe.pc = "start"
    /\ probe' = IF probe.n = 0
                THEN [probe EXCEPT !.pc = "done"]
                ELSE [probe EXCEPT
                         !.pc = "top",
                         !.step = effectiveBatchSize(probe.stage, probe.n, probe.batchSize),
                         !.lastRequestTime = probe.now]
    /\ PipelineIdle

\* The loop without the wait between two requests.
StageTopNeverWaits ==
    /\ probe.pc = "top"
    /\ IF probe.i >= probe.n
       THEN probe' = [probe EXCEPT !.pc = "done"]
       ELSE \E lag \in Lags(probe.stage) :
               probe' = [probe EXCEPT !.pc = "call", !.now = probe.now + lag]
    /\ PipelineIdle

\* The loop test, elapsed := time.Since(lastRequestTime) and the decision to
\* wait.
StageTop ==
    /\ probe.pc = "top"
    /\ IF probe.i >= probe.n
       THEN probe' = [probe EXCEPT !.pc = "done"]
       ELSE \E lag \in Lags(probe.stage) :
               LET now1    == probe.now + lag
                   elapsed == now1 - probe.lastRequestTime
                   delay   == minDelayBetweenRequests(probe.stage)
               IN probe' = IF elapsed < delay /\ probe.requestCount > 0
                           THEN [probe EXCEPT !.pc = "wait", !.now = now1,
                                              !.remaining = delay - elapsed]
                           ELSE [probe EXCEPT !.pc = "call", !.now = now1]
    /\ PipelineIdle

\* The timer of time.After(waitTime) runs down.
StageTimer ==
    /\ probe.pc = "wait"
    /\ probe.remaining > 0
    /\ ~probe.cancelled
    /\ LET d == Min(TimerStep, probe.remaining)
       IN probe' = [probe EXCEPT !.remaining = @ - d, !.now = @ + d]
    /\ PipelineIdle

\* select: case <-time.After(waitTime)
StageWaitOver ==
    /\ probe.pc = "wait"
    /\ probe.remaining = 0
    /\ probe' = [probe EXCEPT !.pc = "call"]
    /\ PipelineIdle

\* select: case <-ctx.Done(): return nil, ctx.Err()
StageWaitCancelled ==
    /\ probe.pc = "wait"
    /\ probe.cancelled
    /\ probe' = [probe EXCEPT !.pc = "done", !.results = <<>>, !.err = ErrCanceled]
    /\ PipelineIdle

\* The caller's context is cancelled.
StageCancel ==
    /\ probe.pc # "done"
    /\ ~probe.cancelled
    /\ probe' = [probe EXCEPT !.cancelled = TRUE]
    /\ PipelineIdle

\* The request for articles[i:end] (or for the next category) and what the
\* loop does with its outcome: an error ends categorization and
\* summarization with no results, the ranker goes on with the unscored
\* articles.
StageRequest ==
    /\ probe.pc = "call"
    /\ LET end  == Min(probe.i + probe.step, probe.n)
           sent == [from |-> probe.i + 1, to |-> end, began |-> probe.now,
                    ended |-> probe.now + RequestTime]
           next == [probe EXCEPT !.requestCount = @ + 1,
                                 !.requests = Append(@, sent),
                                 !.now = @ + RequestTime]
           went == [next EXCEPT !.results = @ \o [k \in 1..(end - probe.i) |-> probe.i + k],
                                !.lastRequestTime = next.now,
                                !.i = @ + probe.step,
                                !.pc = "top"]
       IN \/ probe' = went
          \/ probe' = IF probe.stage = "rank" THEN went
                      ELSE [next EXCEPT !.pc = "done", !.results = <<>>,
                                        !.err = "batch"]
    /\ PipelineIdle

NextStage ==
    \/ StageStart
    \/ StageTop
    \/ StageTimer
    \/ StageWaitOver
    \/ StageWaitCancelled
    \/ StageCancel
    \/ StageRequest

SpecStage == InitStage /\ [][NextStage]_vars

\* ------------------------------------------------ two Saves at the same time
\* Two processes call FileStore.Save on one state path.  Files are kept here
\* byte by byte: a directory entry names an inode (0 when there is none), an
\* inode holds a sequence of parts, and each part is a part of the rendering
\* of the State of process w (of the State saved before, for w = 0).
Savers == {1, 2}

\* The rendering of the State process w saves; Saved2 has a recipient more
\* than Saved1 and is the longer one.
Rendering(w) == [k \in 1..(Whole + (IF w = 2 THEN 1 ELSE 0)) |-> [of |-> w, part |-> k]]

\* f.Write(data) at offset 0 of a file that holds content.
Overlay(content, data) ==
    data \o (IF Len(content) > Len(data)
             THEN SubSeq(content, Len(data) + 1, Len(content)) ELSE <<>>)

InitSaves ==
    /\ InitRun
    /\ stateFile = EmptyState
    /\ digestFile = <<>>
    /\ startState = stateFile
    /\ runsLeft = 0
    /\ probe = [inode |-> <<Rendering(0)>>,
                dir |-> [state |-> 1, tmp |-> 0],
                save |-> [w \in Savers |-> [pc |-> "mkdir", fd |-> 0, err |-> ""]]]

\* One step of Save in process w, to position pc1 with error err1.
SavesStep(w, pc1, err1) ==
    [probe EXCEPT !.save[w].pc = pc1, !.save[w].err = err1]

\* json.MarshalIndent and os.MkdirAll(dir, 0755)
SavesMkdir(w) ==
    /\ probe.save[w].pc = "mkdir"
    /\ \/ probe' = SavesStep(w, "open", "")
       \/ probe' = SavesStep(w, "done", "create state directory")
    /\ PipelineIdle

\* os.WriteFile opens tmpPath with O_WRONLY|O_CREATE|O_TRUNC: the file at
\* the path is emptied, or a new one is made.
SavesOpen(w) ==
    /\ probe.save[w].pc = "open"
    /\ \/ /\ probe.dir.tmp # 0
          /\ probe' = [SavesStep(w, "write", "") EXCEPT
                          !.inode[probe.dir.tmp] = <<>>,
                          !.save[w].fd = probe.dir.tmp]
       \/ /\ probe.dir.tmp = 0
          /\ probe' = [SavesStep(w, "write", "") EXCEPT
                          !.inode = Append(@, <<>>),
                          !.dir.tmp = Len(probe.inode) + 1,
                          !.save[w].fd = Len(probe.inode) + 1]
       \/ probe' = SavesStep(w, "done", "write temp state file")
    /\ PipelineIdle

\* os.WriteFile writes data into the file it opened and closes it; the write
\* may stop short with an error.
SavesWrite(w) ==
    /\ probe.save[w].pc = "write"
    /\ LET fd == probe.save[w].fd
       IN \/ probe' = [SavesStep(w, "rename", "") EXCEPT
                          !.inode[fd] = Overlay(@, Rendering(w))]
          \/ \E k \in 0..(Len(Rendering(w)) - 1) :
                probe' = [SavesStep(w, "done", "write temp state file") EXCEPT
                             !.inode[fd] = Overlay(@, SubSeq(Rendering(w), 1, k))]
    /\ PipelineIdle

\* os.Rename(tmpPath, s.path): the state path takes over the file at the
\* temporary path in one step, or the rename fails (no file at tmpPath).
SavesRename(w) ==
    /\ probe.save[w].pc = "rename"
    /\ \/ /\ probe.dir.tmp # 0
          /\ probe' = [SavesStep(w, "done", "") EXCEPT
                          !.dir.state = probe.dir.tmp, !.dir.tmp = 0]
       \/ probe' = SavesStep(w, "remove", "")
    /\ PipelineIdle

\* _ = os.Remove(tmpPath) after a failed rename.
SavesRemove(w) ==
    /\ probe.save[w].pc = "remove"
    /\ \/ probe' = [SavesStep(w, "done", "rename temp state file") EXCEPT
                       !.dir.tmp = 0]
       \/ probe' = SavesStep(w, "done", "rename temp state file")
    /\ PipelineIdle

NextSaves ==
    \/ \E w \in Savers : SavesMkdir(w)
    \/ \E w \in Savers : SavesOpen(w)
    \/ \E w \in Savers : SavesWrite(w)
    \/ \E w \in Savers : SavesRename(w)
    \/ \E w \in Savers : SavesRemove(w)

SpecSaves == InitSaves /\ [][NextSaves]_vars

\* ================================================================= claims
IsPrefix(s, t) == Len(s) <= Len(t) /\ \A i \in 1..Len(s) : s[i] = t[i]

Done == pc = "done"

Succeeded == pc = "done" /\ result = "ok"

Count(name) == Cardinality({i \in 1..Len(calls) : calls[i] = name})

Called(name) == name \in Range(calls)

\* The ids of idSeq that the ledger does not hold, as ledger rows stamped now.
NewRows(idSeq, ledger, now) ==
    LET known == {ledger[i].ID : i \in 1..Len(ledger)}
        fresh == SelectSeq(idSeq, LAMBDA x : x \notin known)
    IN [i \in 1..Len(fresh) |-> [ID |-> fresh[i], SentAt |-> now]]

\* In a send-mode invocation, the digest file as it was when Run started.
StartDigest == IF digest # <<>> THEN digest ELSE digestFile

LoadAndResolve == IF p.hasResolver THEN <<"Load", "Resolve">> ELSE <<"Load">>

SendModeTrace == LoadAndResolve \o <<"LoadDigest", "Send", "Save", "DeleteDigest">>

\* A send-mode invocation that has a digest with messages and recipients.
SendModeWithDigest ==
    /\ pc # "idle"
    /\ p.sendMode
    /\ Len(recipients) > 0
    /\ StartDigest # <<>>
    /\ Len(StartDigest[1].Messages) > 0

DigestDispatched ==
    /\ IsPrefix(calls, SendModeTrace)
    /\ Succeeded =>
          /\ calls = SendModeTrace
          /\ sendArgs = <<digest[1].Messages>>
          /\ stateFile.SentArticles =
                startState.SentArticles \o
                NewRows(digest[1].ArticleIDs, startState.SentArticles, clock)

\* C1 as stated: every send-mode run with a digest that has messages, and
\* with recipients, calls Send(digest messages), Save(ledger + new digest
\* ids), DeleteDigest in this order and runs no build stage.
C1_AsStated == SendModeWithDigest => DigestDispatched

\* C1: in a send-mode run with sendTestMessage unset, where a persisted
\* digest with at least one message exists and recipients are available, the
\* calls made are, in order, Send with exactly the digest's messages, Save of
\* a state whose ledger is the previous ledger followed by the digest's
\* article ids that it did not hold, then DeleteDigest; a failing call ends
\* the run there; no collect, filter, categorize, rank, summarize or format
\* stage runs.
C1_SendModeDispatch ==
    (SendModeWithDigest /\ ~p.sendTestMessage) => DigestDispatched

\* A send-mode run has dispatched a digest of which one article was already
\* in the ledger and one was not.
C1_Witness ==
    /\ SendModeWithDigest /\ ~p.sendTestMessage /\ Succeeded
    /\ calls = SendModeTrace
    /\ \E i \in 1..Len(digest[1].ArticleIDs) :
          digest[1].ArticleIDs[i] \in SentIDs(startState)
    /\ \E i \in 1..Len(digest[1].ArticleIDs) :
          digest[1].ArticleIDs[i] \notin SentIDs(startState)

BuildFlags == pc # "idle" /\ p.buildMode /\ ~p.sendMode

NeverDispatches ==
    /\ ~Called("Send")
    /\ ~Called("Save")
    /\ stateFile = startState

EndsWithOneSaveDigest ==
    /\ Count("SaveDigest") = 1
    /\ Last(calls) = "SaveDigest"
    /\ Called("BuildMessages") \/ (Called("Rank") /\ ids = <<>>)

\* C2 as stated: a run with buildMode set and sendMode unset never calls
\* Send or Save, and ends after one SaveDigest call.
C2_AsStated ==
    BuildFlags => (NeverDispatches /\ (Succeeded => EndsWithOneSaveDigest))

\* C2: a build-mode run (buildMode set, sendMode unset) with sendTestMessage
\* unset never invokes Sender.Send and never invokes StateStore.Save, and
\* leaves the persisted State as it was; when it returns nil with skipGemini
\* unset it has run through formatting (or reached the no-relevant-news
\* path) and its last call is its only SaveDigest call.
C2_BuildNeverDispatches ==
    (BuildFlags /\ ~p.sendTestMessage) =>
        /\ NeverDispatches
        /\ (Succeeded /\ ~p.skipGemini) => EndsWithOneSaveDigest

\* A build-mode run with recipients at hand has saved a digest of articles.
C2_Witness ==
    /\ BuildFlags /\ ~p.sendTestMessage /\ Succeeded
    /\ Len(recipients) > 0
    /\ Called("BuildMessages")
    /\ digestFile # <<>> /\ digestFile[1].ArticleIDs = ids /\ ids # <<>>

Stages == <<"Collect", "Apply", "Categorize", "Rank", "Summarize", "BuildMessages">>

SendIfRecipients == IF Len(recipients) > 0 THEN <<"Send">> ELSE <<>>

\* The calls of a run with both mode flags off that returns nil.
CombinedTrace ==
    IF p.skipGemini THEN LoadAndResolve \o <<"Collect", "Apply">>
    ELSE IF ids = <<>>
         THEN LoadAndResolve \o <<"Collect", "Apply", "Categorize", "Rank">>
              \o SendIfRecipients
    ELSE LoadAndResolve \o Stages \o SendIfRecipients \o <<"Save">>

\* The calls of a run with both mode flags off, however it ends.
CombinedTraceSoFar(t) ==
    \/ IsPrefix(t, LoadAndResolve \o Stages \o <<"Send", "Save">>)
    \/ IsPrefix(t, LoadAndResolve \o Stages \o <<"Save">>)
    \/ IsPrefix(t, LoadAndResolve \o <<"Collect", "Apply", "Categorize", "Rank", "Send">>)

BehavesAsCombined(t) ==
    /\ CombinedTraceSoFar(t)
    /\ Succeeded =>
          /\ t = CombinedTrace
          /\ (~p.skipGemini /\ ids # <<>>) =>
                /\ sendArgs = (IF Len(recipients) > 0 THEN <<messages>> ELSE <<>>)
                /\ stateFile = updateState(state, ids, clock)

FallbackPrefix == Len(LoadAndResolve) + 1

\* C3: a send-mode run that finds no persisted digest goes on, in the same
\* invocation, as a run with both mode flags off: after LoadDigest its calls
\* are those of such a run (collect, filter, categorize, rank, summarize,
\* format, dispatch, save state), and it never writes a digest artifact.
C3_FallbackIsCombined ==
    /\ (pc # "idle" /\ ~fallback /\ ~p.sendMode /\ ~p.buildMode
        /\ ~p.sendTestMessage) => BehavesAsCombined(calls)
    /\ (fallback /\ (Done => result # ErrNotConfigured)) =>
          /\ SubSeq(calls, 1, FallbackPrefix) = LoadAndResolve \o <<"LoadDigest">>
          /\ BehavesAsCombined(SubSeq(calls, FallbackPrefix + 1, Len(calls)))
          /\ ~Called("SaveDigest")
          /\ digestFile = <<>>

\* A run started with both sendMode and buildMode found no digest, built the
\* digest itself, sent it and saved the state.
C3_Witness ==
    /\ fallback /\ Succeeded
    /\ Called("BuildMessages") /\ Last(calls) = "Save"
    /\ sendArgs = <<messages>> /\ messages # <<>>
    /\ Range(ids) \subseteq SentIDs(stateFile)

\* The error labels Run wraps around a failure of each collaborator call.
Labels(name) ==
    CASE name = "Load" -> {"load state"}
      [] name = "Resolve" -> {"resolve recipients"}
      [] name = "LoadDigest" -> {"load digest"}
      [] name = "Collect" -> {"collect articles"}
      [] name = "Apply" -> {"filter articles"}
      [] name = "Categorize" -> {"categorize articles"}
      [] name = "Rank" -> {"rank articles"}
      [] name = "Summarize" -> {"summarize articles"}
      [] name = "BuildMessages" -> {"build messages"}
      [] name = "Send" -> {"send messages", "send test message",
                           "send 'no news today' service message"}
      [] name = "SaveDigest" -> {"save digest",
                                 "save digest (no-news service message)"}
      [] OTHER -> {}

StepLabels ==
    UNION {Labels(n) : n \in {"Load", "Resolve", "LoadDigest", "Collect", "Apply",
                              "Categorize", "Rank", "Summarize", "BuildMessages",
                              "Send", "SaveDigest"}}

\* C4: when a step of a run fails (load state, resolve recipients, load
\* digest, collect, filter, categorize, rank, summarize, build messages,
\* send, save digest), Run returns an error carrying that step's label, Save
\* is not invoked in that run, and the persisted State is what it was when
\* the run started.
C4_StepFailureLeavesState ==
    (Done /\ result \in StepLabels) =>
        /\ calls # <<>> /\ result \in Labels(Last(calls))
        /\ ~Called("Save")
        /\ stateFile = startState

\* Sending the built messages failed after every stage had succeeded.
C4_Witness ==
    /\ Done /\ result = "send messages"
    /\ Called("BuildMessages") /\ ids # <<>>
    /\ stateFile = startState

\* The ids a step adds to the persisted ledger.
Added == SentIDs(stateFile') \ SentIDs(stateFile)

Outgoing == IF digest # <<>> THEN digest[1].Messages ELSE messages

Recorded == IF digest # <<>> THEN Range(digest[1].ArticleIDs) ELSE Range(ids)

SendAccepted ==
    /\ Len(sendArgs') = Len(sendArgs) + 1
    /\ pc' \in {"saveStateSend", "saveState"}

\* C6: across any sequence of build-mode, send-mode and combined runs, once
\* an article id has been dispatched and recorded in the persisted
\* sent-ledger, no later run dispatches a digest containing that article
\* while the id remains in the ledger.
C6_NoRedispatch ==
    [][SendAccepted =>
          \A a \in IdsOf(Last(sendArgs')) :
              ~(a \in delivered /\ a \in SentIDs(stateFile))]_vars

\* C7: after a send-mode run that dispatched a persisted digest and returned
\* success, the digest artifact no longer exists, so that a following
\* send-mode run cannot find and dispatch the same digest again.
C7_DigestGoneAfterSend ==
    (Succeeded /\ p.sendMode /\ digest # <<>>
     /\ sendArgs = <<digest[1].Messages>>) => digestFile = <<>>

\* C8: for any previous state and any entries list, applying updateState and
\* then applying it again to the result with the same entries yields a
\* ledger in which every id appears exactly once: no two ledger rows carry
\* the same id, and each id of the entries has its row.
C8_LedgerIdempotent ==
    (probe # <<>> /\ probe.applied = 2) =>
        LET ledger == probe.state.SentArticles
        IN /\ \A i \in 1..Len(ledger) : \A j \in 1..Len(ledger) :
                  ledger[i].ID = ledger[j].ID => i = j
           /\ \A x \in Range(probe.entries) :
                  \E i \in 1..Len(ledger) : ledger[i].ID = x

\* The last n elements of s.
KeepLast(s, n) == IF Len(s) > n THEN SubSeq(s, Len(s) - n + 1, Len(s)) ELSE s

\* The ids the running invocation reconciles the ledger with, in order.
RecordedSeq == IF digest # <<>> THEN digest[1].ArticleIDs ELSE ids

\* C9: after every state reconciliation, in combined mode (updateState from
\* the digest entries) and in send mode (updateStateFromDigest from the
\* digest's article ids) alike, the sent-ledger holds at most 500 entries,
\* and when appending pushes it past 500 exactly the oldest entries by
\* insertion order are evicted.
C9_LedgerCapped ==
    [][stateFile' # stateFile =>
          /\ Len(stateFile'.SentArticles) <= maxSentHistory
          /\ stateFile'.SentArticles =
                KeepLast(stateFile.SentArticles
                         \o NewRows(RecordedSeq, stateFile.SentArticles, clock),
                         maxSentHistory)]_vars

\* Rank has returned and no article is left.
NoRelevantNews == pc # "idle" /\ Called("Rank") /\ ids = <<>>

NoNewsDigest ==
    [Messages |-> <<serviceMessage>>, CreatedAt |-> clock, ArticleIDs |-> <<>>]

\* C10: when Rank returns zero articles in a run with both mode flags off
\* and with recipients, Sender.Send is invoked exactly once, with a list
\* holding exactly the fixed service message, and neither Summarize nor
\* BuildMessages is invoked; in build mode nothing is sent and the single
\* message is persisted as a digest with no article ids.
C10_NoRelevantNews ==
    NoRelevantNews =>
        /\ ~Called("Summarize") /\ ~Called("BuildMessages")
        /\ (~p.buildMode /\ Len(recipients) > 0) =>
              IF Done THEN Count("Send") = 1 /\ sendArgs = << <<serviceMessage>> >>
              ELSE pc = "sendServiceMessage" /\ sendArgs = <<>>
        /\ p.buildMode =>
              /\ ~Called("Send") /\ sendArgs = <<>>
              /\ ~Done => pc = "saveNoNewsDigest"
              /\ Done => Last(calls) = "SaveDigest" /\ Count("SaveDigest") = 1
              /\ Succeeded => digestFile = <<NoNewsDigest>>

\* A run with both flags off has sent the service message on an empty
\* ranking, the digest file holding the service message an earlier
\* build-mode run saved on an empty ranking.
C10_Witness ==
    /\ NoRelevantNews /\ Succeeded
    /\ ~p.buildMode /\ Len(recipients) > 0
    /\ sendArgs = << <<serviceMessage>> >>
    /\ digestFile # <<>>
    /\ digestFile[1].Messages = <<serviceMessage>>
    /\ digestFile[1].ArticleIDs = <<>>
    /\ digestFile[1].CreatedAt < clock

\* C11: on the no-relevant-news path (Rank returns zero articles) the
\* persisted sentArticles ledger is, during and after the run, identical to
\* the ledger before the run.
C11_NoNewsKeepsLedger ==
    NoRelevantNews => stateFile.SentArticles = startState.SentArticles

\* A run whose filter passed no article, so that the ranking was empty, has
\* sent the service message over a ledger that earlier runs filled.
C11_Witness ==
    /\ NoRelevantNews /\ Succeeded
    /\ articles = <<>>
    /\ sendArgs = << <<serviceMessage>> >>
    /\ startState.SentArticles # <<>>
    /\ stateFile.SentArticles = startState.SentArticles

\* C12: on the no-relevant-news path with both mode flags off, the run
\* records its completion: once the service message is dispatched and Run
\* has returned nil, the persisted State's lastRun is the current time.
C12_NoNewsUpdatesLastRun ==
    (NoRelevantNews /\ Succeeded /\ ~p.buildMode
     /\ sendArgs = << <<serviceMessage>> >>) => stateFile.LastRun = clock

\* The classes under which GenerateText treats a failure as quota-exhausted.
QuotaClasses == {"rpd", "quota"}

QuotaMarkers == {ErrRPDQuota, ErrQuota}

AllCalls(class) == \A k \in 1..Len(probe.calls) : probe.calls[k] = class

\* C13: in GenerateText a failure classified as quota-exhausted is never
\* retried: the call that failed so is the last external call, and
\* GenerateText has returned that error wrapped with a quota-exceeded marker;
\* when the first call fails so, the external call is made exactly once.
C13_QuotaNeverRetried ==
    \A k \in 1..Len(probe.calls) :
        probe.calls[k] \in QuotaClasses =>
            /\ k = Len(probe.calls)
            /\ probe.pc = "done"
            /\ probe.ret.kind = "error"
            /\ probe.ret.marker \in QuotaMarkers
            /\ probe.ret.err = probe.lastErr
            /\ Classify(probe.lastErr) = probe.calls[k]

\* The only call failed with the daily-quota 429 and GenerateText returned.
C13_Witness ==
    /\ probe.calls = <<"rpd">>
    /\ probe.pc = "done"
    /\ probe.ret = Wrapped(ErrRPDQuota, probe.lastErr)
    /\ probe.lastErr \in {ErrDailyQuota, ErrDailyMetric}

\* C14: in GenerateText the external call is never made more than 5 times;
\* while every call so far has failed with a rate-limit error the next
\* attempt follows (after a wait of at most a minute, unless the wait is
\* cancelled) until 5 calls are made, and then the last error is returned
\* wrapped with "max retries exceeded", which is not a quota-exceeded
\* marker; a call that yields the text is the last one and the text is
\* returned.
C14_RetryBudget ==
    /\ Len(probe.calls) <= maxRetries
    /\ (AllCalls("rateLimit") /\ Len(probe.calls) = maxRetries) =>
          /\ probe.pc = "done"
          /\ probe.ret = Wrapped(ErrMaxRetries, probe.lastErr)
          /\ Classify(probe.lastErr) = "rateLimit"
          /\ probe.ret.marker \notin QuotaMarkers
    /\ (AllCalls("rateLimit") /\ Len(probe.calls) \in 1..(maxRetries - 1)) =>
          \/ probe.pc = "call"
          \/ probe.pc = "wait" /\ probe.remaining <= rateLimitDelay
          \/ probe.pc = "done" /\ probe.ret = Wrapped(ErrCanceled, {})
    /\ \A k \in 1..Len(probe.calls) :
          probe.calls[k] = "text" =>
              /\ k = Len(probe.calls)
              /\ probe.pc = "done"
              /\ probe.ret = [kind |-> "text"]

\* Five calls, each failing with a rate-limit error, and the budget is spent.
C14_Witness ==
    /\ Len(probe.calls) = 5 /\ AllCalls("rateLimit")
    /\ probe.pc = "done"
    /\ probe.ret.marker = ErrMaxRetries

\* C15: if the cancellation signal fires while GenerateText is waiting
\* before a retry, the next thing it does is return the cancellation error:
\* the rest of the backoff is not waited out and no further external call
\* is made.
C15_CancelAbortsWait ==
    [][(probe.pc = "wait" /\ probe.cancelled /\ probe.remaining > 0) =>
          /\ probe'.pc = "done"
          /\ probe'.ret = Wrapped(ErrCanceled, {})
          /\ probe'.remaining = probe.remaining
          /\ probe'.calls = probe.calls]_vars

\* GenerateText returned the cancellation error part-way through the
\* one-minute wait that follows a rate-limit error.
C15_Witness ==
    /\ probe.pc = "done"
    /\ probe.ret = Wrapped(ErrCanceled, {})
    /\ probe.isRateLimitRPMTPM
    /\ probe.remaining > 0 /\ probe.remaining < rateLimitDelay
    /\ Len(probe.calls) >= 1

\* The category the last response entry for an id gives, blanks trimmed, if
\* it is a configured category up to case; <<>> stands for none.
LastAnswer(response, id) ==
    LET hits == {i \in 1..Len(response) : response[i].ID = id}
    IN IF hits = {} THEN <<>>
       ELSE <<TrimSpace(response[CHOOSE i \in hits : \A j \in hits : j <= i].Category)>>

Configured(category) ==
    \E i \in 1..Len(categories) : ToLower(category) = ToLower(categories[i])

\* C17: for any batch of M articles and any parseable response,
\* categorizeBatch returns exactly M entries, one per input article in input
\* order; an article carries the response's category when that category is
\* in the configured set, and the default category when its id is missing
\* from the response or its category is not in the set; response ids that
\* are not in the batch are ignored.
C17_OnePerArticle ==
    probe.returned =>
        /\ Len(probe.results) = Len(probe.articles)
        /\ \A i \in 1..Len(probe.articles) :
              LET answer == LastAnswer(probe.response, probe.articles[i].ID)
              IN /\ probe.results[i].Article = probe.articles[i]
                 /\ probe.results[i].Category =
                       IF answer # <<>> /\ Configured(answer[1])
                       THEN answer[1] ELSE DefaultCategory

\* The part of Rank's results that belongs to a category.
Contribution(c) == SelectSeq(probe.results, LAMBDA x : GroupKey(x) = c)

\* C18: if the external call for a ranking category fails, Rank does not
\* fail: that category contributes its input articles in input order with
\* their scores unchanged, truncated only to the per-category cap, and the
\* remaining categories are still ranked.
C18_RankFailsOpen ==
    /\ probe.err # "" => (probe.err = ErrCanceled /\ probe.todo # {})
    /\ (probe.pc # "start" /\ probe.err = "") =>
          \A c \in CategoriesOf(probe.categorized) \ probe.todo :
              LET arts == byCategory(probe.categorized, c)
                  kept == Min(Len(arts), cfg.MaxArticlesPerCategory)
              IN /\ Len(Contribution(c)) = kept
                 /\ ByScore(Contribution(c))
                 /\ c \in probe.failed => Contribution(c) = SubSeqTo(arts, kept)
                 /\ c \notin probe.failed =>
                       \A i \in 1..kept :
                           \E j \in 1..Len(arts) :
                               /\ Contribution(c)[i].Article = arts[j].Article
                               /\ Contribution(c)[i].Category = arts[j].Category
    /\ (probe.pc = "done" /\ probe.err = "") => probe.todo = {}

\* Rank has returned: the request for a category of three articles failed
\* and the category gave its first two; another category was ranked.
C18_Witness ==
    /\ probe.pc = "done" /\ probe.err = ""
    /\ \E c \in probe.failed :
          /\ Len(byCategory(probe.categorized, c)) = 3
          /\ Contribution(c) = SubSeqTo(byCategory(probe.categorized, c), 2)
    /\ \E c \in CategoriesOf(probe.categorized) \ probe.failed :
          \E i \in 1..Len(Contribution(c)) : Contribution(c)[i].RelevanceScore = 10

\* C16: a quota-exhausted failure of the external call in any generation
\* stage (categorize, rank or summarize) aborts the run: the failing stage
\* is the last collaborator called, nothing is dispatched, no file is
\* written, and Run returns an error.
C16_QuotaAborts ==
    quotaIn # {} =>
        /\ pc = "done"
        /\ result \notin {"", "ok"}
        /\ \E stage \in {"Categorize", "Rank", "Summarize"} : Last(calls) = stage
        /\ sendArgs = <<>>
        /\ stateFile = startState

InWindow(a, now) ==
    now - cfg.RecencyMaxHours <= a.PublishedAt /\ a.PublishedAt <= now

\* C19: Filter.Apply keeps an article under its time rules iff
\* now - recencyMaxHours <= publishedAt <= now: every kept article lies in
\* the window, its ends included, and an article in the window is kept
\* unless another rule drops it (short content, a key met before, an id of
\* the ledger).
C19_RecencyWindow ==
    probe.applied =>
        /\ \A k \in 1..Len(probe.filtered) : InWindow(probe.filtered[k], probe.now)
        /\ \A i \in 1..Len(probe.articles) :
              LET a == probe.articles[i]
              IN (/\ InWindow(a, probe.now)
                  /\ TrimmedRuneCount(a.RawContent) >= cfg.MinContentLength
                  /\ a.ID \notin SentIDs(probe.state)
                  /\ \A j \in 1..(i - 1) :
                        canonicalKey(probe.articles[j]) # canonicalKey(a))
                 => a \in Range(probe.filtered)

\* Apply has run on three articles with long content and ids the ledger does
\* not hold: the one published exactly at the cutoff is kept, the one an
\* hour older and the one an hour after now are dropped.
C19_Witness ==
    /\ probe.applied
    /\ \E a \in Range(probe.articles), b \in Range(probe.articles),
          c \in Range(probe.articles) :
          /\ a.PublishedAt = probe.now - cfg.RecencyMaxHours
          /\ a \in Range(probe.filtered)
          /\ b.PublishedAt = probe.now - cfg.RecencyMaxHours - 1
          /\ c.PublishedAt = probe.now + 1
          /\ \A x \in {b, c} :
                /\ x \notin Range(probe.filtered)
                /\ TrimmedRuneCount(x.RawContent) >= cfg.MinContentLength
                /\ x.ID \notin SentIDs(probe.state)
                /\ canonicalKey(x) # canonicalKey(a)
                /\ [x EXCEPT !.PublishedAt = probe.now] \in
                       Range(Apply(<<[x EXCEPT !.PublishedAt = probe.now]>>,
                                   probe.state, probe.now))

\* Two articles that are one feed item under two spellings of its URL.
SameButURL(a, b) ==
    /\ a.URL # b.URL
    /\ canonicalKey(a) = canonicalKey(b)
    /\ [a EXCEPT !.URL = <<>>, !.ID = 0] = [b EXCEPT !.URL = <<>>, !.ID = 0]

\* C20: Filter.Apply's output never contains two articles with the same
\* canonical key; of articles that differ only in URL casing or surrounding
\* whitespace, none but the first in input order is kept.
C20_FirstOfDuplicatesKept ==
    probe.applied =>
        /\ \A i \in 1..Len(probe.filtered) : \A j \in 1..Len(probe.filtered) :
              i # j => canonicalKey(probe.filtered[i]) # canonicalKey(probe.filtered[j])
        /\ \A i \in 1..Len(probe.articles) : \A j \in 1..Len(probe.articles) :
              (i < j /\ SameButURL(probe.articles[i], probe.articles[j]))
              => probe.articles[j] \notin Range(probe.filtered)

\* The ids of the ledger rows Apply was handed.
LedgerIDs == {probe.state.SentArticles[i].ID : i \in 1..Len(probe.state.SentArticles)}

\* C21: Filter.Apply never returns an article whose id is present in
\* state.sentArticles, and an article that passes the time, content-length
\* and duplicate rules (no article kept before it has its key) and whose id
\* is not in the ledger is kept.
C21_LedgerRule ==
    probe.applied =>
        /\ \A k \in 1..Len(probe.filtered) : probe.filtered[k].ID \notin LedgerIDs
        /\ \A i \in 1..Len(probe.articles) :
              LET a == probe.articles[i]
              IN (/\ InWindow(a, probe.now)
                  /\ TrimmedRuneCount(a.RawContent) >= cfg.MinContentLength
                  /\ \A j \in 1..(i - 1) :
                        probe.articles[j] \in Range(probe.filtered)
                        => canonicalKey(probe.articles[j]) # canonicalKey(a)
                  /\ a.ID \notin LedgerIDs)
                 => a \in Range(probe.filtered)

\* Apply has run over a ledger that holds the id of one article of the
\* batch: that article, in the window and long enough, is dropped, and
\* another article is kept.
C21_Witness ==
    /\ probe.applied
    /\ probe.filtered # <<>>
    /\ \E a \in Range(probe.articles) :
          /\ a.ID \in LedgerIDs
          /\ InWindow(a, probe.now)
          /\ TrimmedRuneCount(a.RawContent) >= cfg.MinContentLength
          /\ a \notin Range(probe.filtered)

C23_CorruptStateRecovered ==
    (probe.load.called /\ ~Parses(probe.load.read)
     /\ probe.load.err # "read state file") =>
        /\ probe.load.err = ""
        /\ probe.load.state = EmptyState
        /\ probe.load.read.exists => probe.fs.broken = probe.load.read

\* C24: FileStore.Save replaces the state file atomically: at every step of
\* Save, also when a step fails or the process is killed between steps,
\* the file at the state path holds either the complete previous contents
\* or the complete new contents, and after a successful Save it holds the
\* new contents and no temporary file remains.
C24_SaveAtomic ==
    \A w \in DOMAIN probe.save :
        /\ probe.fs.state \in {probe.before, Marshal(probe.save[w].state)}
        /\ (probe.save[w].pc = "done" /\ probe.save[w].err = "") =>
              /\ probe.fs.state = Marshal(probe.save[w].state)
              /\ ~probe.fs.tmp.exists

\* Save has returned nil over a state file that held another State: the
\* file holds the new one.
C24_Witness ==
    \E w \in DOMAIN probe.save :
        /\ probe.save[w].pc = "done" /\ probe.save[w].err = ""
        /\ Parses(probe.before)
        /\ probe.before # Marshal(probe.save[w].state)
        /\ probe.fs.state = Marshal(probe.save[w].state)

\* The run has a digest to dispatch: the persisted one, the one it has just
\* formatted, or the service message of the no-relevant-news path.
DigestToDispatch ==
    /\ ~p.sendTestMessage
    /\ \/ digest # <<>> /\ digest[1].Messages # <<>>
       \/ ~p.buildMode /\ messages # <<>>
       \/ ~p.buildMode /\ NoRelevantNews

\* The run has come to send the test message.
TestMessageToDispatch ==
    /\ p.sendTestMessage
    /\ Done /\ Called("Load")
    /\ result \notin {"load state", "resolve recipients"}

\* What the run does about an empty recipient list.
NoRecipientsRule ==
    IF p.forceDispatch
    THEN /\ sendArgs = <<>>
         /\ result # ErrNoRecipients
         /\ Done => result \in {"ok", "save state"}
    ELSE /\ Done /\ result = ErrNoRecipients
         /\ sendArgs = <<>>
         /\ ~Called("Save")
         /\ stateFile = startState

\* C25 as stated: whenever a run has messages to dispatch, the test message
\* included, and no recipients, it fails with the no-recipients error
\* without saving if forceDispatch is unset, and skips Send and goes on
\* without error if it is set.
C25_AsStated ==
    ((DigestToDispatch \/ TestMessageToDispatch) /\ recipients = <<>>)
    => NoRecipientsRule

\* C25: when a run with sendTestMessage unset has a digest to dispatch and
\* the recipient list is empty: with forceDispatch unset the run fails with
\* the no-recipients error, Send is not invoked and State is not saved; with
\* forceDispatch set Send is not invoked and the run goes on, ending without
\* error unless Save fails.
C25_NoRecipients ==
    (DigestToDispatch /\ recipients = <<>>) => NoRecipientsRule

\* A combined run with forceDispatch set and nobody to send to has skipped
\* Send, saved the state with the digest's articles, and returned nil.
C25_Witness ==
    /\ DigestToDispatch /\ recipients = <<>>
    /\ p.forceDispatch /\ ~p.sendMode
    /\ messages # <<>>
    /\ Succeeded
    /\ Last(calls) = "Save"
    /\ sendArgs = <<>>
    /\ stateFile.SentArticles # startState.SentArticles

NoGeneration ==
    \A stage \in {"Categorize", "Rank", "Summarize"} : ~Called(stage)

\* C26 as stated: in a run with skipGemini set Categorize, Rank and
\* Summarize are never invoked and Sender.Send is never invoked.
C26_AsStated ==
    (pc # "idle" /\ p.skipGemini) => (NoGeneration /\ sendArgs = <<>>)

\* C26: in a run with skipGemini set Categorize, Rank, Summarize and
\* BuildMessages are never invoked; a run that collects stops after
\* filtering and volume limiting, returns nil, and has not invoked Send nor
\* written a file; Send is invoked only with the test message
\* (sendTestMessage) or with the persisted digest (send mode).
C26_DryRun ==
    (pc # "idle" /\ p.skipGemini) =>
        /\ NoGeneration /\ ~Called("BuildMessages")
        /\ Called("Collect") =>
              /\ sendArgs = <<>>
              /\ stateFile = startState
              /\ ~Called("Save") /\ ~Called("SaveDigest")
              /\ (Done /\ Last(calls) = "Apply") =>
                    result \in {"ok", "filter articles"}
              /\ Called("Apply") => (Done /\ Last(calls) = "Apply")
        /\ sendArgs # <<>> =>
              \/ p.sendTestMessage /\ sendArgs = << <<testMessage>> >>
              \/ /\ ~p.sendTestMessage /\ digest # <<>>
                 /\ sendArgs = <<digest[1].Messages>>

\* A run with skipGemini set has filtered a feed that held articles to keep
\* and has returned nil.
C26_Witness ==
    /\ p.skipGemini /\ ~p.sendMode /\ ~p.sendTestMessage
    /\ Succeeded
    /\ Last(calls) = "Apply"
    /\ articles # <<>>
    /\ sendArgs = <<>>

\* The filter's output in the step that goes from filtering to Categorize.
Filtered == Apply(articles, state, clock)

\* C27: when the configured ceiling is positive and the filtered-article
\* count exceeds it, the list passed to Categorize holds exactly ceiling
\* articles of the filtered ones and no excluded article is newer than an
\* included one; otherwise it is the filtered list; Categorize is invoked
\* after the limiting and never receives more than ceiling articles.
C27_VolumeLimit ==
    [][/\ (Called("Categorize")' /\ ~Called("Categorize")) =>
            (cfg.MaxArticlesBeforeGemini > 0
             => Len(articles) <= cfg.MaxArticlesBeforeGemini)
       /\ (pc = "filter" /\ pc' = "categorize") =>
            IF cfg.MaxArticlesBeforeGemini > 0
               /\ Len(Filtered) > cfg.MaxArticlesBeforeGemini
            THEN /\ Len(articles') = cfg.MaxArticlesBeforeGemini
                 /\ Cardinality(Range(articles')) = Len(articles')
                 /\ Range(articles') \subseteq Range(Filtered)
                 /\ \A e \in Range(Filtered) \ Range(articles') :
                       \A a \in Range(articles') :
                           e.PublishedAt <= a.PublishedAt
            ELSE articles' = Filtered]_vars

\* Categorize has been handed the two most recent of the three articles
\* that the filter kept of the first feed on a fresh installation.
C27_Witness ==
    /\ calls # <<>> /\ Last(calls) = "Categorize"
    /\ startState = EmptyState /\ state.SentArticles = <<>>
    /\ Len(Apply(<<Art1, Art3, Art5, Art2, Art4>>, state, clock)) = 3
    /\ articles = <<Art1, Art2>>

\* C28: Sender.Send attempts delivery of every message to every recipient:
\* a delivery that has failed does not end Send, which returns an error only
\* for an empty argument or when the pause between two messages is
\* cancelled; when it returns nil, SendMessage has been called for every
\* recipient and message, the failed deliveries included.
C28_BestEffort ==
    /\ probe.ret \in {"", "ok", ErrCanceled, "no recipients provided",
                       "no messages to send"}
    /\ probe.ret = ErrCanceled => probe.cancelled
    /\ probe.ret \in {"no recipients provided", "no messages to send"}
          => (probe.recipients = 0 \/ probe.messages = 0)
    /\ probe.failed \subseteq probe.attempted
    /\ probe.ret = "ok" =>
          /\ probe.attempted = (1..probe.recipients) \X (1..probe.messages)
          /\ probe.sentCount = Cardinality(probe.attempted \ probe.failed)

\* Send has returned nil although the first delivery to the first of two
\* recipients failed: the deliveries after it were made.
C28_Witness ==
    /\ probe.pc = "done" /\ probe.ret = "ok"
    /\ probe.recipients = 2 /\ probe.messages = 2
    /\ <<1, 1>> \in probe.failed
    /\ <<2, 2>> \in probe.attempted \ probe.failed
    /\ ~probe.cancelled

\* C29: the recipient-discovery cursor never moves backwards: the state that
\* Resolve returns has a cursor at least as large as the state it was given,
\* also when the poll returns an update id below the cursor, and no step of
\* any run lowers the cursor kept in the state file.
C29_CursorMonotone ==
    [][/\ (pc = "resolve" => state'.LastUpdateID >= state.LastUpdateID)
       /\ stateFile'.LastUpdateID >= stateFile.LastUpdateID]_vars

\* A run that started from a positive cursor, learnt recipient 2 from an update
\* whose id lies below that cursor, and saved its state.
C29_Witness ==
    /\ Succeeded
    /\ Called("Resolve")
    /\ Called("Save")
    /\ startState.LastUpdateID >= 1
    /\ 2 \notin Range(startState.Recipients)
    /\ 2 \in Range(stateFile.Recipients)
    /\ stateFile.LastUpdateID = startState.LastUpdateID

\* The collaborators of a combined-mode run in the order of Pipeline.Run.
StageOrder ==
    <<"Load", "Resolve", "Collect", "Apply", "Categorize", "Rank", "Summarize",
      "BuildMessages", "Send", "Save">>

StageNo(name) == CHOOSE i \in 1..Len(StageOrder) : StageOrder[i] = name

\* The calls of the combined-mode Run in progress: all of them, or those made
\* by fallbackPipeline.Run after the send-mode run found no digest.
RunCalls ==
    IF fallback THEN SubSeq(calls, Len(LoadAndResolve) + 2, Len(calls)) ELSE calls

CombinedMode == pc # "idle" /\ ~p.sendMode /\ ~p.buildMode

\* C30: at every moment of a combined-mode run the collaborators called so
\* far are stages of Load, Resolve, Collect, Apply, Categorize, Rank,
\* Summarize, BuildMessages, Send, Save, each called at most once and each
\* later in that order than every call made before it.
C30_StageOrder ==
    CombinedMode =>
        /\ Range(RunCalls) \subseteq Range(StageOrder)
        /\ \A i, j \in 1..Len(RunCalls) :
              i < j => StageNo(RunCalls[i]) < StageNo(RunCalls[j])

\* A combined-mode run that went through all ten stages.
C30_Witness ==
    /\ CombinedMode
    /\ ~fallback
    /\ Succeeded
    /\ calls = StageOrder

RECURSIVE Pow2(_)
Pow2(n) == IF n <= 0 THEN 1 ELSE 2 * Pow2(n - 1)

\* The wait the retry policy prescribes after a failure of class c when the
\* next attempt has number k (counted from 0): one minute, five minutes, or
\* baseDelay doubled with every attempt and capped.
PrescribedWait(c, k) ==
    IF c = "rateLimit" THEN rateLimitDelay
    ELSE IF c = "unavailable" THEN serviceUnavailableDelay
    ELSE Min(baseDelay * Pow2(k - 1), maxBackoff)

\* GenerateText has just failed and starts the wait before its next attempt.
StartsWait == probe.pc = "call" /\ probe'.pc = "wait"

\* C31: the wait before a retry depends on the class of the failure just seen
\* only: one minute after a rate-limit failure, five minutes after an
\* overloaded one, and after a transient one a wait that doubles with the
\* attempt number up to the cap of 60 seconds.
C31_BackoffByClass ==
    [][StartsWait =>
          probe'.remaining = PrescribedWait(Last(probe'.calls), probe'.attempt)]_vars

HasAny(e, markers) == e \cap markers # {}

\* The failure classes in the order in which a failure is matched against them.
ClassOrder == <<"rpd", "rateLimit", "unavailable", "temporary", "quota", "other">>

\* The markers by which an error text belongs to a class.
Matches(c, e) ==
    CASE c = "rpd" ->
            /\ HasAny(e, {"429"})
            /\ HasAny(e, {"limit: 20", "generate_content_free_tier_requests"})
      [] c = "rateLimit" ->
            HasAny(e, {"rate limit", "429", "too many requests", "resource exhausted"})
      [] c = "unavailable" ->
            HasAny(e, {"503", "service unavailable", "overloaded", "model overloaded"})
      [] c = "temporary" ->
            HasAny(e, {"500", "502", "504", "internal server error", "bad gateway",
                       "gateway timeout"})
      [] c = "quota" -> HasAny(e, {"quota", "quota exceeded", "daily limit", "403"})
      [] OTHER -> TRUE

FirstMatch(e) ==
    ClassOrder[CHOOSE i \in 1..Len(ClassOrder) :
                  /\ Matches(ClassOrder[i], e)
                  /\ \A j \in 1..(i - 1) : ~Matches(ClassOrder[j], e)]

RetryClasses == {"rateLimit", "unavailable", "temporary"}

\* A GenerateContent call has just returned an error.
CallFailed ==
    /\ probe.pc = "call"
    /\ Len(probe'.calls) = Len(probe.calls) + 1
    /\ Last(probe'.calls) \notin {"text", "noText"}

\* C32: a failed call is handled as the first class it matches in the order
\* daily quota, rate limit, overloaded, transient, other quota, other.  After
\* a rate-limit, overloaded or transient failure GenerateText goes on to the
\* wait before its next attempt while the budget lasts; after a failure of
\* any other class it returns that failure, wrapped, without a further call.
C32_FirstMatchDecides ==
    [][CallFailed =>
          LET e == probe'.lastErr
              c == FirstMatch(e)
          IN /\ Last(probe'.calls) = c
             /\ c \in RetryClasses =>
                   IF probe'.attempt < maxRetries
                   THEN probe'.pc = "wait" /\ probe'.ret.kind = "none"
                   ELSE probe'.pc = "done" /\ probe'.ret = Wrapped(ErrMaxRetries, e)
             /\ c \notin RetryClasses =>
                   /\ probe'.pc = "done"
                   /\ probe'.ret =
                         Wrapped(IF c = "rpd" THEN ErrRPDQuota
                                 ELSE IF c = "quota" THEN ErrQuota ELSE ErrGenerate, e)]_vars

\* A 429 that names a quota but carries no daily-limit marker matches the
\* rate-limit class and the other-quota class: it was taken as a rate-limit
\* failure and GenerateText waits before the next attempt.
C32_Witness ==
    /\ probe.calls # <<>>
    /\ probe.lastErr = ErrPerMinuteQuota
    /\ Last(probe.calls) = "rateLimit"
    /\ probe.pc = "wait"

\* The categories whose pass of Rank's loop is over.
Ranked == DOMAIN probe.scored

\* C33: for every category Rank has dealt with, the articles it gives are in
\* non-increasing order of relevance score and at most MaxArticlesPerCategory
\* many; they are articles of the category with the scores the pass gave
\* them, and no article of the category left out has a higher score than one
\* kept; a score taken from a response lies in 0..10.
C33_TopByScore ==
    (probe.pc # "start" /\ probe.err = "") =>
        \A c \in Ranked :
            LET all  == probe.scored[c]
                kept == Contribution(c)
                out  == Range(all) \ Range(kept)
            IN /\ ByScore(kept)
               /\ Len(kept) <= cfg.MaxArticlesPerCategory
               /\ Range(kept) \subseteq Range(all)
               /\ Cardinality(Range(kept)) = Len(kept)
               /\ Len(kept) = Min(Len(all), cfg.MaxArticlesPerCategory)
               /\ \A x \in out : \A y \in Range(kept) :
                     x.RelevanceScore <= y.RelevanceScore
               /\ c \notin probe.failed =>
                     \A x \in Range(all) : x.RelevanceScore \in 0..10

\* A category of three articles was scored 11, -1 and 7 in input order: the
\* two kept have the scores 10 and 7, the one left out has 0.
C33_Witness ==
    \E c \in Ranked \ probe.failed :
        /\ Len(probe.scored[c]) = 3
        /\ [i \in 1..3 |-> probe.scored[c][i].RelevanceScore] = <<10, 0, 7>>
        /\ [i \in 1..2 |-> Contribution(c)[i].RelevanceScore] = <<10, 7>>
        /\ probe.pc = "done"

\* The ids a parsed response gives a usable value for: a summary that is not
\* blank, or a score.
Answered ==
    IF probe.op = "summarize"
    THEN {probe.response[k].ID :
             k \in {m \in 1..Len(probe.response) :
                       TrimSpace(probe.response[m].SummaryRU) # <<>>}}
    ELSE DOMAIN probe.response

\* C34: summarizeBatch and rankBatch return one entry per article of the
\* batch, in the order of the batch; an article the response has no summary
\* for, or only a blank one, has its title as summary, and an article the
\* response has no score for has the score 5.
C34_OnePerArticle ==
    probe.returned =>
        /\ Len(probe.results) = Len(probe.articles)
        /\ \A i \in 1..Len(probe.articles) :
              LET a == probe.articles[i]
                  r == probe.results[i]
              IN IF probe.op = "summarize"
                 THEN /\ r.ID = a.Article.ID
                      /\ r.Title = a.Article.Title
                      /\ r.URL = a.Article.URL
                      /\ r.Category = a.Category
                      /\ a.Article.ID \notin Answered => r.SummaryRU = a.Article.Title
                      /\ a.Article.ID \in Answered =>
                            \E k \in 1..Len(probe.response) :
                                /\ probe.response[k].ID = a.Article.ID
                                /\ r.SummaryRU = TrimSpace(probe.response[k].SummaryRU)
                                /\ r.SummaryRU # <<>>
                 ELSE /\ r.Article = a.Article
                      /\ r.Category = a.Category
                      /\ a.Article.ID \notin Answered => r.RelevanceScore = 5

\* summarizeBatch on three articles: the response has a summary for the
\* second, a blank one for the third and an entry for no article of the
\* batch; the first and the third come back with their titles.
C34_Witness ==
    /\ probe.returned
    /\ probe.op = "summarize"
    /\ Len(probe.articles) = 3
    /\ Len(probe.response) = 2
    /\ probe.response[1] = [ID |-> probe.articles[2].Article.ID, SummaryRU |-> <<" ", "s", " ">>]
    /\ probe.response[2] = [ID |-> probe.articles[3].Article.ID, SummaryRU |-> <<" ">>]
    /\ probe.results[2].SummaryRU = <<"s">>
    /\ probe.results[3].SummaryRU = probe.articles[3].Article.Title
    /\ probe.results[1].SummaryRU = probe.articles[1].Article.Title

\* ceil(n / size)
CeilDiv(n, size) == (n + size - 1) \div size

Batched == probe.stage \in {"categorize", "summarize"}

\* Categorize or Summarize has returned without an error.
StageSucceeded == probe.pc = "done" /\ probe.err = ""

\* The requests made so far are consecutive slices of the input.
ConsecutiveSlices ==
    \A k \in 1..Len(probe.requests) :
        /\ probe.requests[k].from = (IF k = 1 THEN 1 ELSE probe.requests[k - 1].to + 1)
        /\ probe.requests[k].from <= probe.requests[k].to
        /\ probe.requests[k].to <= probe.n

\* C35 as stated: one request whenever the input has at most batchSize
\* articles, ceil(n / batchSize) requests otherwise.
C35_AsStated ==
    (Batched /\ StageSucceeded) =>
        Len(probe.requests) =
            (IF probe.n <= probe.batchSize THEN 1 ELSE CeilDiv(probe.n, probe.batchSize))

\* C35: Categorize and Summarize make no request for an empty input, one
\* request for one to batchSize articles and ceil(n / batchSize) requests for
\* more; the requests carry consecutive slices of the input, which together
\* are the whole input when the stage succeeds; when a request fails or the
\* wait is cancelled the stage returns an error and no results.
C35_Batching ==
    Batched =>
        /\ ConsecutiveSlices
        /\ StageSucceeded =>
              /\ Len(probe.requests) =
                    (IF probe.n = 0 THEN 0
                     ELSE IF probe.n <= probe.batchSize THEN 1
                     ELSE CeilDiv(probe.n, probe.batchSize))
              /\ probe.n > 0 => Last(probe.requests).to = probe.n
              /\ probe.results = [k \in 1..probe.n |-> k]
        /\ (probe.pc = "done" /\ probe.err # "") => probe.results = <<>>

\* Categorization of four articles with a batch size of three: two requests,
\* the second one with the fourth article alone.
C35_Witness ==
    /\ probe.stage = "categorize"
    /\ probe.n = 4
    /\ probe.batchSize = 3
    /\ StageSucceeded
    /\ Len(probe.requests) = 2
    /\ probe.requests[2].from = 4
    /\ probe.requests[2].to = 4

\* A request has just been made.
Requested == Len(probe'.requests) = Len(probe.requests) + 1

\* C36: in the request loop of categorization, ranking and summarization no
\* wait comes before the first request; every later request begins no sooner
\* than the minimum delay after the end of the request before it; and when
\* the context is cancelled while the loop waits, with time still to wait, the
\* stage returns the cancellation error, no results, and makes no request.
C36_RequestSpacing ==
    [][/\ probe'.pc = "wait" => probe'.requestCount > 0
       /\ (Requested /\ Len(probe.requests) = 0) => probe.remaining = 0
       /\ (Requested /\ Len(probe.requests) > 0) =>
             Last(probe'.requests).began >=
                Last(probe.requests).ended + minDelayBetweenRequests(probe.stage)
       /\ (probe.pc = "wait" /\ probe.cancelled /\ probe.remaining > 0) =>
             /\ probe'.pc = "done"
             /\ probe'.err = ErrCanceled
             /\ probe'.results = <<>>
             /\ probe'.requests = probe.requests]_vars

\* The ranker has made its second request after waiting out the whole of the
\* delay: it began twelve seconds after the first one ended.
C36_Witness ==
    /\ probe.stage = "rank"
    /\ Len(probe.requests) = 2
    /\ probe.requests[1].began = 0
    /\ probe.requests[2].began = probe.requests[1].ended + rankDelay
    /\ probe.err = ""

\* The run was started in send mode (it may have fallen back to a full run).
SendModeRun == pc # "idle" /\ (p.sendMode \/ fallback)

\* Run has returned because Sender.Send or StateStore.Save failed.
SendOrSaveFailed ==
    Done /\ result \in {"send messages", "save state", "send test message"}

\* C37: when Sender.Send or StateStore.Save fails in a send-mode run, the run
\* returns that error without calling DeleteDigest, and the digest it loaded
\* is still in the digest file, with its messages, for the next send-mode run.
C37_FailedSendKeepsDigest ==
    (SendModeRun /\ SendOrSaveFailed) =>
        /\ ~Called("DeleteDigest")
        /\ (p.sendMode /\ Called("LoadDigest")) =>
              /\ digestFile # <<>>
              /\ digestFile = digest
              /\ Len(digestFile[1].Messages) > 0
        /\ fallback => digestFile = <<>>

\* A send-mode run sent the digest, failed to save the state and returned the
\* error; the digest is still on disk.
C37_Witness ==
    /\ p.sendMode
    /\ Done
    /\ result = "save state"
    /\ calls = LoadAndResolve \o <<"LoadDigest", "Send", "Save">>
    /\ digestFile # <<>>

\* Run has returned ctx.Err() from one of its two one-minute waits.
WaitCancelled == Done /\ result = ErrCanceled

\* C38: when the context is cancelled during the orchestrator's wait before
\* ranking or before summarization, Run returns the cancellation error: the
\* stage the wait precedes is not called, nor any stage after it, nothing is
\* sent, no digest is written or removed, and the state file is as it was
\* when the run began.
C38_CancelledWaitStopsRun ==
    WaitCancelled =>
        /\ calls # <<>>
        /\ Last(calls) \in {"Categorize", "Rank"}
        /\ Count("Categorize") = 1
        /\ Count("Rank") <= 1
        /\ Range(calls) \cap {"Summarize", "BuildMessages", "Send", "Save",
                              "SaveDigest", "DeleteDigest"} = {}
        /\ sendArgs = <<>>
        /\ stateFile = startState

\* The wait before summarization was cancelled after two articles had been
\* ranked.
C38_Witness ==
    /\ WaitCancelled
    /\ calls # <<>>
    /\ Last(calls) = "Rank"
    /\ Len(ids) = 2

\* The article passes the staleness, future-date and content-length rules.
PassesEarlyRules(a) ==
    /\ InWindow(a, probe.now)
    /\ TrimmedRuneCount(a.RawContent) >= cfg.MinContentLength

\* C39: Filter.Apply decides the duplicate rule before the already-delivered
\* rule: an article is dropped when an earlier article of the batch has its
\* canonical key and passed the staleness, future-date and content-length
\* rules, whether that earlier article was kept or dropped as already
\* delivered.
C39_DuplicateBeforeLedger ==
    probe.applied =>
        \A i \in 1..Len(probe.articles) : \A j \in 1..Len(probe.articles) :
            (/\ i < j
             /\ canonicalKey(probe.articles[i]) = canonicalKey(probe.articles[j])
             /\ PassesEarlyRules(probe.articles[i]))
            => probe.articles[j] \notin Range(probe.filtered)

\* The bytes at the state path.
AtStatePath == IF probe.dir.state = 0 THEN <<>> ELSE probe.inode[probe.dir.state]

BothSavesOver == \A w \in Savers : probe.save[w].pc = "done"

\* C40: when two processes run Save against one state path, the state file
\* holds at every step the whole rendering of one State (the one saved
\* before or the one of either process), and once both calls are over and
\* one of them returned nil it holds the whole State of one of the two
\* processes.
C40_LastWriterWins ==
    /\ AtStatePath \in {Rendering(0), Rendering(1), Rendering(2)}
    /\ (BothSavesOver /\ \E w \in Savers : probe.save[w].err = "") =>
          AtStatePath \in {Rendering(1), Rendering(2)}

====
